---- MODULE Spec2Model ----
(***************************************************************************)
(* Model of the rdma_exporter scrape pipeline: the counter canonicalizer,  *)
(* the metric identifier registry, the PFC pattern extractor, the scrape   *)
(* orchestrator (RdmaCollector.Collect), the sysfs enumerator              *)
(* (SysfsProvider.Devices) and the metrics handler of the HTTP server that *)
(* races a gather goroutine against the scrape timeout.                    *)
(* Names are TLA+ strings; they are taken apart with Len, SubSeq and \o.   *)
(***************************************************************************)
EXTENDS Integers, Sequences, FiniteSets, TLC

(***************************************************************************)
(* Characters                                                              *)
(***************************************************************************)
LowerStr == "abcdefghijklmnopqrstuvwxyz"
UpperStr == "ABCDEFGHIJKLMNOPQRSTUVWXYZ"
DigitStr == "0123456789"
HexStr == "0123456789abcdef"

CharAt(s, i) == SubSeq(s, i, i)

CharsOf(s) == {CharAt(s, i) : i \in 1..Len(s)}

IndexOf(c, s) == CHOOSE i \in 1..Len(s) : CharAt(s, i) = c

LowerSet == CharsOf(LowerStr)
UpperSet == CharsOf(UpperStr)
DigitSet == CharsOf(DigitStr)

IsLower(c) == c \in LowerSet
IsUpper(c) == c \in UpperSet
IsDigit(c) == c \in DigitSet

\* unicode.ToLower restricted to 'A'..'Z', the only runes it is called on
ToLowerTable == [c \in UpperSet |-> CharAt(LowerStr, IndexOf(c, UpperStr))]

ToLower(c) == ToLowerTable[c]

\* the printable ASCII characters other than letters and digits, each with
\* its byte; a string outside this alphabet does not occur in the model
PunctStr == " -./:_"
PunctBytes == <<32, 45, 46, 47, 58, 95>>

\* the byte of an ASCII character ([]byte(s) in fnv32, string comparison)
ByteTable ==
    [c \in LowerSet \cup UpperSet \cup DigitSet \cup CharsOf(PunctStr) |->
        IF c \in LowerSet THEN 96 + IndexOf(c, LowerStr)
        ELSE IF c \in UpperSet THEN 64 + IndexOf(c, UpperStr)
        ELSE IF c \in DigitSet THEN 47 + IndexOf(c, DigitStr)
        ELSE PunctBytes[IndexOf(c, PunctStr)]]

ByteOf(c) == ByteTable[c]

(***************************************************************************)
(* metricSpecs: the table of known counters.  Every entry's DocName equals *)
(* its key and every entry has a non-empty help text, which is modelled by *)
(* the key it documents.                                                   *)
(***************************************************************************)
metricSpecKeys ==
  {
    "port_rcv_data", "port_rcv_packets", "port_multicast_rcv_packets",
    "port_unicast_rcv_packets", "port_xmit_data", "port_xmit_packets",
    "port_multicast_xmit_packets", "port_unicast_xmit_packets",
    "port_rcv_switch_relay_errors", "port_rcv_errors",
    "port_rcv_constraint_errors", "local_link_integrity_errors",
    "port_xmit_wait", "port_xmit_discards", "port_xmit_constraint_errors",
    "port_rcv_remote_physical_errors", "symbol_error", "VL15_dropped",
    "link_error_recovery", "link_downed", "duplicate_request",
    "implied_nak_seq_err", "lifespan", "local_ack_timeout_err",
    "np_cnp_sent", "np_ecn_marked_roce_packets", "out_of_buffer",
    "out_of_sequence", "packet_seq_err", "req_cqe_error",
    "req_cqe_flush_error", "req_remote_access_errors",
    "req_remote_invalid_request", "resp_cqe_error", "resp_cqe_flush_error",
    "resp_local_length_error", "resp_remote_access_errors",
    "rnr_nak_retry_err", "roce_adp_retrans", "roce_adp_retrans_to",
    "roce_slow_restart", "roce_slow_restart_cnps", "roce_slow_restart_trans",
    "rp_cnp_handled", "rp_cnp_ignored", "rx_atomic_requests",
    "rx_dct_connect", "rx_icrc_encapsulated", "rx_read_requests",
    "rx_write_requests"
  }

metricSpecs == [k \in metricSpecKeys |-> [DocName |-> k, Help |-> k]]

buildMetricHelpByDocName ==
    LET docs == {metricSpecs[k].DocName : k \in
                   {j \in metricSpecKeys : metricSpecs[j].DocName # ""
                                           /\ metricSpecs[j].Help # ""}}
    IN  [d \in docs |-> metricSpecs[CHOOSE k \in metricSpecKeys :
                                        metricSpecs[k].DocName = d].Help]

metricHelpByDocName == buildMetricHelpByDocName

(***************************************************************************)
(* sanitizeStatName                                                        *)
(***************************************************************************)
\* upper-case letters are written as they are
SanitizeRuneKeepsCase(stat, i) ==
    LET r == CharAt(stat, i) IN
    IF IsLower(r) \/ IsUpper(r) THEN r
    ELSE IF IsDigit(r) THEN (IF i = 1 THEN "_" \o r ELSE r)
    ELSE "_"

\* the runes written for the rune at (1-based) position i of stat
SanitizeRune(stat, i) ==
    LET r == CharAt(stat, i) IN
    IF IsLower(r) THEN r
    ELSE IF IsUpper(r) THEN ToLower(r)
    ELSE IF IsDigit(r) THEN (IF i = 1 THEN "_" \o r ELSE r)
    ELSE "_"

RECURSIVE SanitizeFrom(_, _, _)
\* the builder b after the runes from position i on are written to it;
\* every rune writes at least one character
SanitizeFrom(b, stat, i) ==
    IF i > Len(stat) THEN b
    ELSE LET next == b \o SanitizeRune(stat, i)
         IN  CASE Len(next) > Len(b) -> SanitizeFrom(next, stat, i + 1)

sanitizeStatName(stat) ==
    IF stat = "" THEN "unknown"
    ELSE LET b == SanitizeFrom("", stat, 1)
             res == IF b = "" THEN "unknown" ELSE b
         IN  IF IsDigit(CharAt(res, 1)) THEN "_" \o res ELSE res

(***************************************************************************)
(* fnv32: 32-bit FNV-1a.  A 32-bit word is kept as its two 16-bit halves   *)
(* <<hi, lo>> so that every intermediate product stays a small integer.    *)
(***************************************************************************)
RECURSIVE Xor(_, _)
Xor(a, b) ==
    IF a = 0 THEN b
    ELSE IF b = 0 THEN a
    ELSE (((a % 2) + (b % 2)) % 2) + 2 * Xor(a \div 2, b \div 2)

FnvOffset == <<33052, 40389>>          \* 0x811c9dc5

\* h * 16777619 mod 2^32, with 16777619 = 2^24 + 403
FnvMul(h) ==
    LET lo403 == h[2] * 403 IN
    << ((h[1] * 403) + (lo403 \div 65536) + ((h[2] % 256) * 256)) % 65536,
       lo403 % 65536 >>

FnvStep(h, byte) ==
    FnvMul(<< h[1], ((h[2] \div 256) * 256) + Xor(h[2] % 256, byte) >>)

\* <<hi, lo>> is a 32-bit word
Word32(w) == w[1] \in 0..65535 /\ w[2] \in 0..65535

RECURSIVE FnvFrom(_, _, _)
\* the hash of s given the hash h of its first i - 1 bytes; every
\* intermediate hash is a 32-bit word
FnvFrom(h, s, i) ==
    IF i > Len(s) THEN h
    ELSE LET next == FnvStep(h, ByteOf(CharAt(s, i)))
         IN  CASE Word32(next) -> FnvFrom(next, s, i + 1)

fnv32(s) == FnvFrom(FnvOffset, s, 1)

RECURSIVE Hex16(_, _)
Hex16(n, digits) ==
    IF digits = 0 THEN ""
    ELSE Hex16(n \div 16, digits - 1) \o CharAt(HexStr, (n % 16) + 1)

RECURSIVE StripZeros(_)
StripZeros(s) ==
    IF Len(s) > 1 /\ CharAt(s, 1) = "0" THEN StripZeros(Tail(s)) ELSE s

\* fmt.Sprintf("%x", h) of a uint32: lower-case hex without leading zeros
FormatHex(h) == StripZeros(Hex16(h[1], 4) \o Hex16(h[2], 4))

(***************************************************************************)
(* canonicalDocName                                                        *)
(***************************************************************************)
\* a name that is not in the table is returned as it came
canonicalDocNameRaw(stat) ==
    IF stat \in DOMAIN metricSpecs /\ metricSpecs[stat].DocName # ""
    THEN metricSpecs[stat].DocName
    ELSE IF sanitizeStatName(stat) \in DOMAIN metricSpecs
            /\ metricSpecs[sanitizeStatName(stat)].DocName # ""
    THEN metricSpecs[sanitizeStatName(stat)].DocName
    ELSE stat

canonicalDocName(stat) ==
    IF stat \in DOMAIN metricSpecs /\ metricSpecs[stat].DocName # ""
    THEN metricSpecs[stat].DocName
    ELSE LET sanitized == sanitizeStatName(stat) IN
         IF sanitized \in DOMAIN metricSpecs
            /\ metricSpecs[sanitized].DocName # ""
         THEN metricSpecs[sanitized].DocName
         ELSE IF sanitized = "" THEN "unknown" ELSE sanitized

(***************************************************************************)
(* Maps: a Go map is a function; EmptyMap is the empty (or nil) map.       *)
(***************************************************************************)
EmptyMap == [k \in {} |-> k]

Put(m, k, v) == [x \in DOMAIN m \cup {k} |-> IF x = k THEN v ELSE m[x]]

(***************************************************************************)
(* Metric identifier registry                                              *)
(***************************************************************************)
metricDocHelp(docName, fallback) ==
    IF docName \in DOMAIN metricHelpByDocName
    THEN metricHelpByDocName[docName]
    ELSE fallback

buildMetricName(docName, existing) ==
    LET base == sanitizeStatName(docName)
        metricName == "rdma_" \o base \o "_total"
    IN  IF metricName \in DOMAIN existing
           /\ existing[metricName].docName # docName
        THEN "rdma_" \o base \o "_" \o FormatHex(fnv32(docName)) \o "_total"
        ELSE metricName

\* prometheus.NewDesc(fqName, help, variableLabels, nil)
NewDesc(fqName, help, labels) ==
    [fqName |-> fqName, help |-> help, labels |-> labels]

\* returns the descriptor together with the two maps as metricDesc leaves them
metricDescUnrecorded(stat, docName, fallback, entries, lookup) ==
    [desc |-> NewDesc(buildMetricName(docName, entries),
                      metricDocHelp(docName, fallback), <<"device", "port">>),
     entries |-> entries, lookup |-> lookup]

metricDesc(stat, docName, fallback, entries, lookup) ==
    IF stat \in DOMAIN lookup /\ lookup[stat] \in DOMAIN entries
    THEN [desc |-> entries[lookup[stat]].desc,
          entries |-> entries, lookup |-> lookup]
    ELSE LET metricName == buildMetricName(docName, entries)
             help == metricDocHelp(docName, fallback)
             desc == NewDesc(metricName, help, <<"device", "port">>)
         IN  [desc |-> desc,
              entries |-> Put(entries, metricName,
                              [desc |-> desc, metricName |-> metricName,
                               stat |-> stat, docName |-> docName]),
              lookup |-> Put(lookup, stat, metricName)]

StatFallback == "RDMA port counter sourced from sysfs counters."
HwFallback == "RDMA port hardware counter sourced from sysfs hw_counters."

statMetricDesc(stat, entries, lookup) ==
    metricDesc(stat, canonicalDocName(stat), StatFallback, entries, lookup)

hwMetricDesc(stat, entries, lookup) ==
    metricDesc(stat, canonicalDocName(stat), HwFallback, entries, lookup)

(***************************************************************************)
(* sortedKeys, strconv.Itoa                                                *)
(***************************************************************************)
RECURSIVE StrLess(_, _)
\* Go's < on strings: byte-wise lexicographic order
StrLess(a, b) ==
    IF b = "" THEN FALSE
    ELSE IF a = "" THEN TRUE
    ELSE LET x == ByteOf(CharAt(a, 1))
             y == ByteOf(CharAt(b, 1))
         IN  IF x # y THEN x < y ELSE StrLess(Tail(a), Tail(b))

RECURSIVE SortSet(_)
SortSet(S) ==
    IF S = {} THEN <<>>
    ELSE LET lo == CHOOSE x \in S : \A y \in S \ {x} : StrLess(x, y)
         IN  <<lo>> \o SortSet(S \ {lo})

\* the keys in descending order
sortedKeysDescending(m) ==
    IF Cardinality(DOMAIN m) = 0 THEN <<>>
    ELSE [i \in 1..Cardinality(DOMAIN m) |->
             SortSet(DOMAIN m)[Cardinality(DOMAIN m) + 1 - i]]

sortedKeys(m) == IF Cardinality(DOMAIN m) = 0 THEN <<>> ELSE SortSet(DOMAIN m)

RECURSIVE Digits(_)
Digits(n) ==
    IF n < 10 THEN CharAt(DigitStr, n + 1)
    ELSE Digits(n \div 10) \o CharAt(DigitStr, (n % 10) + 1)

Itoa(n) == IF n < 0 THEN "-" \o Digits(0 - n) ELSE Digits(n)

(***************************************************************************)
(* PFC pattern extractor                                                   *)
(***************************************************************************)
rocePFCMetricKindFrames == 0
rocePFCMetricKindDuration == 1
rocePFCMetricKindTransitions == 2

PriorityDigits == CharsOf("01234567")

\* FindStringSubmatch of ^(rx|tx)_prio([0-7])_pause(?:_(duration|transition))?$
\* the submatches <<whole, direction, priority, suffix>>, or <<>> for nil
rocePFCStatPattern(name) ==
    LET n == Len(name)
        suffix == IF n > 15 THEN SubSeq(name, 16, n) ELSE ""
    IN  IF /\ n >= 14
           /\ SubSeq(name, 1, 2) \in {"rx", "tx"}
           /\ SubSeq(name, 3, 7) = "_prio"
           /\ CharAt(name, 8) \in PriorityDigits
           /\ SubSeq(name, 9, 14) = "_pause"
           /\ \/ n = 14
              \/ /\ n > 15
                 /\ CharAt(name, 15) = "_"
                 /\ suffix \in {"duration", "transition"}
        THEN <<name, SubSeq(name, 1, 2), CharAt(name, 8), suffix>>
        ELSE <<>>

NoMatch ==
    [direction |-> "", priority |-> "", kind |-> rocePFCMetricKindFrames,
     ok |-> FALSE]

\* the pattern without its closing anchor: a name that only begins like a
\* frames counter is taken for one
parseRoCEPFCMetricNameUnanchored(name) ==
    LET matches == rocePFCStatPattern(name) IN
    IF matches = <<>>
    THEN IF Len(name) > 14 /\ rocePFCStatPattern(SubSeq(name, 1, 14)) # <<>>
         THEN [direction |-> SubSeq(name, 1, 2), priority |-> CharAt(name, 8),
               kind |-> rocePFCMetricKindFrames, ok |-> TRUE]
         ELSE NoMatch
    ELSE [direction |-> matches[2], priority |-> matches[3],
          kind |-> IF matches[4] = "duration" THEN rocePFCMetricKindDuration
                   ELSE IF matches[4] = "transition"
                   THEN rocePFCMetricKindTransitions
                   ELSE rocePFCMetricKindFrames,
          ok |-> TRUE]

parseRoCEPFCMetricName(name) ==
    LET matches == rocePFCStatPattern(name) IN
    IF matches = <<>> THEN NoMatch
    ELSE LET hit(kind) == [direction |-> matches[2], priority |-> matches[3],
                           kind |-> kind, ok |-> TRUE]
         IN  CASE matches[4] = "" -> hit(rocePFCMetricKindFrames)
               [] matches[4] = "duration" -> hit(rocePFCMetricKindDuration)
               [] matches[4] = "transition" ->
                      hit(rocePFCMetricKindTransitions)
               [] OTHER -> NoMatch

(***************************************************************************)
(* Samples and fixed descriptors (collector.New)                           *)
(***************************************************************************)
portInfoDesc ==
    NewDesc("rdma_port_info", "RDMA port metadata exported as labels.",
            <<"device", "port", "link_layer", "state", "phys_state",
              "link_width", "link_speed">>)

PFCLabels == <<"device", "port", "netdev", "direction", "priority">>

rocePFCPauseFramesDesc ==
    NewDesc("rdma_roce_pfc_pause_frames_total",
            "RoCEv2 PFC pause frame counter sourced from ethtool stats.",
            PFCLabels)

rocePFCPauseDurationDesc ==
    NewDesc("rdma_roce_pfc_pause_duration_total",
            "RoCEv2 PFC pause duration counter sourced from ethtool stats.",
            PFCLabels)

rocePFCPauseTransitionsDesc ==
    NewDesc("rdma_roce_pfc_pause_transitions_total",
            "RoCEv2 PFC pause transition counter sourced from ethtool stats.",
            PFCLabels)

scrapeErrorsDesc ==
    NewDesc("rdma_scrape_errors_total",
            "Total number of errors encountered while scraping RDMA sysfs.",
            <<>>)

rocePFCScrapeErrorsDesc ==
    NewDesc("rdma_roce_pfc_scrape_errors_total",
            "Total number of errors encountered while scraping RoCEv2 PFC ethtool stats.",
            <<>>)

\* float64(v) of a uint64: exact below 2^53, and every value of the model is
float64(v) == v

\* prometheus.MustNewConstMetric(desc, valueType, value, labelValues...)
MustNewConstMetric(desc, valueType, value, labelValues) ==
    [desc |-> desc, valueType |-> valueType, value |-> value,
     labelValues |-> labelValues]

\* Counter.Inc and Counter.Collect of a prometheus counter holding v
CounterIncTwice(v) == v + 2

CounterWrap(v) == (v + 1) % 2

CounterInc(v) == v + 1

CounterCollect(desc, v) == MustNewConstMetric(desc, "counter", v, <<>>)

(***************************************************************************)
(* One port of Collect: the loops over port.Stats and port.HwStats.  S is  *)
(* the state they thread: the four registry maps and the samples sent.     *)
(***************************************************************************)
\* ch <- MustNewConstMetric(desc, CounterValue, value, device, port), with
\* r what statMetricDesc or hwMetricDesc returned
SendStatPrimaryOnly(S, hw, r, value, deviceName, portID) ==
    IF hw
    THEN [S EXCEPT !.hwMetrics = r.entries, !.hwLookup = r.lookup]
    ELSE [S EXCEPT !.statMetrics = r.entries,
                   !.statLookup = r.lookup,
                   !.out = Append(@, MustNewConstMetric(r.desc, "counter",
                                         value, <<deviceName, portID>>))]

SendStat(S, hw, r, value, deviceName, portID) ==
    IF hw
    THEN [S EXCEPT !.hwMetrics = r.entries,
                   !.hwLookup = r.lookup,
                   !.out = Append(@, MustNewConstMetric(r.desc, "counter",
                                         value, <<deviceName, portID>>))]
    ELSE [S EXCEPT !.statMetrics = r.entries,
                   !.statLookup = r.lookup,
                   !.out = Append(@, MustNewConstMetric(r.desc, "counter",
                                         value, <<deviceName, portID>>))]

RECURSIVE CollectStats(_, _, _, _, _, _, _)
CollectStats(names, i, values, hw, deviceName, portID, S) ==
    IF i > Len(names) THEN S
    ELSE CollectStats(names, i + 1, values, hw, deviceName, portID,
             SendStat(S, hw,
                      IF hw THEN hwMetricDesc(names[i], S.hwMetrics, S.hwLookup)
                      ELSE statMetricDesc(names[i], S.statMetrics,
                                          S.statLookup),
                      float64(values[names[i]]), deviceName, portID))

(***************************************************************************)
(* readNetDevStatsWithCache and collectRoCEPFCMetrics.  outcome is what    *)
(* netDevStatsProvider.Stats returns if it is called: [stats, err].        *)
(***************************************************************************)
\* a failed fetch is not stored
readNetDevStatsForgetsFailure(netDev, cache, outcome) ==
    IF netDev \in DOMAIN cache
    THEN [stats |-> cache[netDev].stats, err |-> cache[netDev].err,
          cache |-> cache, errInc |-> 0, called |-> FALSE]
    ELSE [stats |-> outcome.stats, err |-> outcome.err,
          cache |-> IF outcome.err THEN cache
                    ELSE Put(cache, netDev,
                             [stats |-> outcome.stats, err |-> outcome.err]),
          errInc |-> IF outcome.err THEN 1 ELSE 0,
          called |-> TRUE]

\* a cached failure is counted again
readNetDevStatsCountsCached(netDev, cache, outcome) ==
    IF netDev \in DOMAIN cache
    THEN [stats |-> cache[netDev].stats, err |-> cache[netDev].err,
          cache |-> cache, errInc |-> IF cache[netDev].err THEN 1 ELSE 0,
          called |-> FALSE]
    ELSE [stats |-> outcome.stats, err |-> outcome.err,
          cache |-> Put(cache, netDev,
                        [stats |-> outcome.stats, err |-> outcome.err]),
          errInc |-> IF outcome.err THEN 1 ELSE 0,
          called |-> TRUE]

readNetDevStatsWithCache(netDev, cache, outcome) ==
    IF netDev \in DOMAIN cache
    THEN [stats |-> cache[netDev].stats, err |-> cache[netDev].err,
          cache |-> cache, errInc |-> 0, called |-> FALSE]
    ELSE [stats |-> outcome.stats, err |-> outcome.err,
          cache |-> Put(cache, netDev,
                        [stats |-> outcome.stats, err |-> outcome.err]),
          errInc |-> IF outcome.err THEN 1 ELSE 0,
          called |-> TRUE]

RECURSIVE PFCSamplesFramesOnly(_, _, _, _, _, _)
\* every matched name is sent under the frames family
PFCSamplesFramesOnly(names, i, stats, deviceName, portID, netDev) ==
    IF i > Len(names) THEN <<>>
    ELSE IF ~parseRoCEPFCMetricName(names[i]).ok
    THEN PFCSamplesFramesOnly(names, i + 1, stats, deviceName, portID, netDev)
    ELSE <<MustNewConstMetric(rocePFCPauseFramesDesc, "counter",
               float64(stats[names[i]]),
               <<deviceName, portID, netDev,
                 parseRoCEPFCMetricName(names[i]).direction,
                 parseRoCEPFCMetricName(names[i]).priority>>)>>
         \o PFCSamplesFramesOnly(names, i + 1, stats, deviceName, portID,
                                 netDev)

RECURSIVE PFCSamples(_, _, _, _, _, _)
PFCSamples(names, i, stats, deviceName, portID, netDev) ==
    IF i > Len(names) THEN <<>>
    ELSE LET name == names[i]
             p == parseRoCEPFCMetricName(name)
             desc == IF p.kind = rocePFCMetricKindDuration
                     THEN rocePFCPauseDurationDesc
                     ELSE IF p.kind = rocePFCMetricKindTransitions
                     THEN rocePFCPauseTransitionsDesc
                     ELSE rocePFCPauseFramesDesc
             rest == PFCSamples(names, i + 1, stats, deviceName, portID,
                                netDev)
         IN  IF ~p.ok THEN rest
             ELSE <<MustNewConstMetric(desc, "counter",
                        float64(stats[name]),
                        <<deviceName, portID, netDev, p.direction,
                          p.priority>>)>> \o rest

PFCNothing(cache) ==
    [cache |-> cache, out |-> <<>>, errInc |-> 0, called |-> FALSE]

\* without the comparison of the link layer
collectRoCEPFCAnyLinkLayer(provider, deviceName, portID, attr, cache, outcome) ==
    IF ~provider THEN PFCNothing(cache)
    ELSE IF attr.NetDev = ""
    THEN PFCNothing(cache)
    ELSE LET rd == readNetDevStatsWithCache(attr.NetDev, cache, outcome) IN
         IF rd.err
         THEN [cache |-> rd.cache, out |-> <<>>, errInc |-> rd.errInc,
               called |-> rd.called]
         ELSE [cache |-> rd.cache,
               out |-> PFCSamples(sortedKeys(rd.stats), 1, rd.stats,
                                  deviceName, portID, attr.NetDev),
               errInc |-> rd.errInc, called |-> rd.called]

collectRoCEPFCMetrics(provider, deviceName, portID, attr, cache, outcome) ==
    IF ~provider THEN PFCNothing(cache)
    ELSE IF attr.LinkLayer # "Ethernet" \/ attr.NetDev = ""
    THEN PFCNothing(cache)
    ELSE LET rd == readNetDevStatsWithCache(attr.NetDev, cache, outcome) IN
         IF rd.err
         THEN [cache |-> rd.cache, out |-> <<>>, errInc |-> rd.errInc,
               called |-> rd.called]
         ELSE [cache |-> rd.cache,
               out |-> PFCSamples(sortedKeys(rd.stats), 1, rd.stats,
                                  deviceName, portID, attr.NetDev),
               errInc |-> rd.errInc, called |-> rd.called]

PortInfoSampleZero(deviceName, portID, attr) ==
    MustNewConstMetric(portInfoDesc, "gauge", 0,
        <<deviceName, portID, attr.LinkLayer, attr.State, attr.PhysState,
          attr.LinkWidth, attr.LinkSpeed>>)

PortInfoSample(deviceName, portID, attr) ==
    MustNewConstMetric(portInfoDesc, "gauge", 1,
        <<deviceName, portID, attr.LinkLayer, attr.State, attr.PhysState,
          attr.LinkWidth, attr.LinkSpeed>>)

(***************************************************************************)
(* Inputs: what the enumerator and the stats source may return             *)
(***************************************************************************)
NumRequests == 2

Requests == 1..NumRequests

Attr(linkLayer, netDev) ==
    [LinkLayer |-> linkLayer, State |-> "ACTIVE", PhysState |-> "LINK_UP",
     LinkWidth |-> "4X", LinkSpeed |-> "100 Gb/sec", NetDev |-> netDev]

MkPort(id, stats, hwStats, attr) ==
    [ID |-> id, Stats |-> stats, HwStats |-> hwStats, Attributes |-> attr]

MkDevice(name, ports) == [Name |-> name, Ports |-> ports]

\* the snapshot of TestCollectorExportsMetrics
SnapBasic ==
    <<MkDevice("mlx5_0",
        <<MkPort(1, ("port_xmit_data" :> 10) @@ ("port_rcv_data" :> 5),
                 ("symbol_error" :> 1), Attr("InfiniBand", ""))>>)>>

\* three Ethernet ports of two devices over two interfaces
SnapShared ==
    <<MkDevice("mlx5_0",
        <<MkPort(1, ("port_rcv_data" :> 7), EmptyMap,
                 Attr("Ethernet", "ens1f0np0"))>>),
      MkDevice("mlx5_1",
        <<MkPort(1, EmptyMap, EmptyMap, Attr("Ethernet", "ens1f0np0")),
          MkPort(2, EmptyMap, EmptyMap, Attr("Ethernet", "ens2f0np0"))>>)>>

\* ports for which PFC collection must be skipped, and one where it is not
SnapSkip ==
    <<MkDevice("mlx5_0",
        <<MkPort(1, EmptyMap, EmptyMap, Attr("InfiniBand", "ens1f0np0")),
          MkPort(2, EmptyMap, EmptyMap, Attr("Ethernet", "")),
          MkPort(3, EmptyMap, EmptyMap, Attr("ethernet", "ens1f0np0"))>>)>>

\* raw names that share a documented name, in one family and across both
SnapAlias ==
    <<MkDevice("mlx5_0",
        <<MkPort(1, ("PORT_RCV_DATA" :> 1), ("port_rcv_data" :> 3),
                 Attr("InfiniBand", "")),
          MkPort(2, ("port_rcv_data" :> 2) @@ ("9x.Y" :> 4), EmptyMap,
                 Attr("Ethernet", "ens1f0np0"))>>)>>

\* the documented names VL15_dropped and vl15_dropped sanitize to one base,
\* and two more raw names spell the hashed identifier that the second of
\* them is given (d350a7d8 is the FNV-1a hash of "vl15_dropped")
SnapCollide ==
    <<MkDevice("mlx5_0",
        <<MkPort(1, ("VL15_dropped" :> 1) @@ ("vl15.dropped_d350a7d8" :> 2)
                    @@ ("vl15_dropped" :> 3)
                    @@ ("vl15_dropped_d350a7d8" :> 4), EmptyMap,
                 Attr("InfiniBand", ""))>>)>>

\* the same collision with the colliding name on a second port, so that
\* it is resolved after the hashed identifier was recorded
SnapCollideSplit ==
    <<MkDevice("mlx5_0",
        <<MkPort(1, ("VL15_dropped" :> 1) @@ ("vl15.dropped_d350a7d8" :> 2),
                 EmptyMap, Attr("InfiniBand", "")),
          MkPort(2, ("vl15_dropped" :> 3), EmptyMap,
                 Attr("InfiniBand", ""))>>)>>

SnapEmpty == <<>>

Snapshots == {SnapBasic, SnapShared, SnapSkip, SnapAlias, SnapCollide,
              SnapCollideSplit, SnapEmpty}

\* the snapshots of the specification with concurrent requests
SnapEth ==
    <<MkDevice("mlx5_0",
        <<MkPort(1, ("port_rcv_data" :> 5), EmptyMap,
                 Attr("Ethernet", "ens1f0np0"))>>)>>

FewSnapshots == {SnapEth}

(***************************************************************************)
(* The names of the PFC counters, said without the pattern: a direction,   *)
(* a priority and a kind make one name                                     *)
(***************************************************************************)
PFCKinds ==
    {rocePFCMetricKindFrames, rocePFCMetricKindDuration,
     rocePFCMetricKindTransitions}

PFCSuffix(kind) ==
    IF kind = rocePFCMetricKindDuration THEN "_duration"
    ELSE IF kind = rocePFCMetricKindTransitions THEN "_transition"
    ELSE ""

PFCName(direction, priority, kind) ==
    direction \o "_prio" \o priority \o "_pause" \o PFCSuffix(kind)

PFCNames ==
    {PFCName(direction, priority, kind) :
        direction \in {"rx", "tx"}, priority \in PriorityDigits,
        kind \in PFCKinds}

PFCFamily(kind) ==
    IF kind = rocePFCMetricKindDuration THEN rocePFCPauseDurationDesc
    ELSE IF kind = rocePFCMetricKindTransitions
    THEN rocePFCPauseTransitionsDesc
    ELSE rocePFCPauseFramesDesc

StatsFailure == [stats |-> EmptyMap, err |-> TRUE]

\* the stats of TestCollectorExportsRoCEPFCMetrics plus a priority out of range
StatsPFC ==
    [stats |-> ("rx_prio0_pause" :> 10) @@ ("tx_prio3_pause" :> 20)
               @@ ("rx_prio4_pause_duration" :> 30)
               @@ ("tx_prio7_pause_transition" :> 40)
               @@ ("rx_prio2_packets" :> 50) @@ ("rx_prio8_pause" :> 60),
     err |-> FALSE]

StatsOutcomes == {StatsFailure, StatsPFC}

\* the outcomes of the specification with concurrent requests
FewOutcomes == {StatsFailure}

RECURSIVE Flatten(_)
\* the ports of a device list in the order Collect walks them
Flatten(devs) ==
    IF devs = <<>> THEN <<>>
    ELSE LET d == Head(devs) IN
         (IF d.Ports = <<>> THEN <<>>
          ELSE [i \in 1..Len(d.Ports) |->
                   [deviceName |-> d.Name, port |-> d.Ports[i]]])
         \o Flatten(Tail(devs))

(***************************************************************************)
(* SysfsProvider: the enumerator of the exporter.  A sysfs tree is the     *)
(* outcome of ReadDir on class/infiniband (classDir: ok, notexist, error), *)
(* the device names to exclude, and the directory's entries in the order   *)
(* ReadDir lists them.  The walk asks ctx.Err() at fixed places; these     *)
(* checks are counted, and cancelAt is the first check that finds the      *)
(* context done (0 when none does).                                        *)
(***************************************************************************)
\* strconv.Atoi on the names that occur: an optional '-' and decimal digits
RECURSIVE AtoiDigits(_, _, _)
AtoiDigits(s, i, acc) ==
    IF i > Len(s) THEN acc
    ELSE AtoiDigits(s, i + 1, acc * 10 + (ByteOf(CharAt(s, i)) - 48))

Atoi(s) ==
    LET neg == Len(s) > 0 /\ CharAt(s, 1) = "-"
        body == IF neg THEN SubSeq(s, 2, Len(s)) ELSE s
    IN  IF Len(body) > 0 /\ \A i \in 1..Len(body) : IsDigit(CharAt(body, i))
        THEN [ok |-> TRUE,
              value |-> IF neg THEN 0 - AtoiDigits(body, 1, 0)
                        ELSE AtoiDigits(body, 1, 0)]
        ELSE [ok |-> FALSE, value |-> 0]

\* ctx.Err() != nil at the n-th check of a walk
Cancelled(n, cancelAt) == cancelAt # 0 /\ n >= cancelAt

\* readCounterDir: the counters of a directory, or the error of reading it
readCounterDir(outcome, counters) ==
    IF outcome = "ok" THEN [counters |-> counters, err |-> "nil"]
    ELSE [counters |-> EmptyMap, err |-> outcome]

\* what a walk returns: its value, whether it failed, the checks made
Walked(value, err, n) == [value |-> value, err |-> err, n |-> n]

RECURSIVE portsLoop(_, _, _, _, _)
\* the loop of portsFromRoot from entry i on, after n checks
portsLoop(entries, i, n, cancelAt, ports) ==
    IF i > Len(entries) THEN Walked(ports, FALSE, n)
    ELSE IF Cancelled(n + 1, cancelAt) THEN Walked(<<>>, TRUE, n + 1)
    ELSE IF ~entries[i].isDir
    THEN portsLoop(entries, i + 1, n + 1, cancelAt, ports)
    ELSE IF ~Atoi(entries[i].name).ok
    THEN portsLoop(entries, i + 1, n + 1, cancelAt, ports)
    ELSE IF readCounterDir(entries[i].counters, entries[i].stats).err # "nil"
    THEN Walked(<<>>, TRUE, n + 1)
    ELSE IF readCounterDir(entries[i].hwCounters, entries[i].hwStats).err
                \notin {"nil", "notexist"}
    THEN Walked(<<>>, TRUE, n + 1)
    ELSE portsLoop(entries, i + 1, n + 1, cancelAt,
             Append(ports,
                 MkPort(Atoi(entries[i].name).value,
                     readCounterDir(entries[i].counters,
                                    entries[i].stats).counters,
                     readCounterDir(entries[i].hwCounters,
                                    entries[i].hwStats).counters,
                     entries[i].attr)))

portsFromRoot(device, n, cancelAt) ==
    IF device.portsDir = "notexist" THEN Walked(<<>>, FALSE, n)
    ELSE IF device.portsDir # "ok" THEN Walked(<<>>, TRUE, n)
    ELSE portsLoop(device.ports, 1, n, cancelAt, <<>>)

\* deviceFromRoot once portsFromRoot has returned
deviceFromPorts(deviceName, ports) ==
    IF ports.err THEN Walked(MkDevice("", <<>>), TRUE, ports.n)
    ELSE Walked(MkDevice(deviceName, ports.value), FALSE, ports.n)

deviceFromRoot(device, n, cancelAt) ==
    IF Cancelled(n + 1, cancelAt)
    THEN Walked(MkDevice("", <<>>), TRUE, n + 1)
    ELSE deviceFromPorts(device.name, portsFromRoot(device, n + 1, cancelAt))

\* a device is excluded when an entry of the list begins its name
isExcludedPrefix(sys, device) ==
    \E x \in sys.exclude :
        Len(x) <= Len(device) /\ SubSeq(device, 1, Len(x)) = x

\* isExcluded: p.excludeDevices[device]
isExcluded(sys, device) == device \in sys.exclude

RECURSIVE devicesLoop(_, _, _, _, _)
\* the end of an iteration of devicesFromRoot: a device that failed fails
\* the walk, any other is appended
appendDeviceSkipsFailure(sys, i, cancelAt, devices, device) ==
    devicesLoop(sys, i + 1, device.n, cancelAt,
                IF device.err THEN devices ELSE Append(devices, device.value))

appendDevice(sys, i, cancelAt, devices, device) ==
    IF device.err THEN Walked(<<>>, TRUE, device.n)
    ELSE devicesLoop(sys, i + 1, device.n, cancelAt,
                     Append(devices, device.value))

\* the loop of devicesFromRoot from entry i on, after n checks
devicesLoop(sys, i, n, cancelAt, devices) ==
    IF i > Len(sys.entries) THEN Walked(devices, FALSE, n)
    ELSE IF Cancelled(n + 1, cancelAt) THEN Walked(<<>>, TRUE, n + 1)
    ELSE IF sys.entries[i].kind \notin {"dir", "symlinkDir"}
    THEN devicesLoop(sys, i + 1, n + 1, cancelAt, devices)
    ELSE IF isExcluded(sys, sys.entries[i].name)
    THEN devicesLoop(sys, i + 1, n + 1, cancelAt, devices)
    ELSE appendDevice(sys, i, cancelAt, devices,
                      deviceFromRoot(sys.entries[i], n + 1, cancelAt))

\* a missing class directory is an error like any other
devicesFromRootStrict(sys, n, cancelAt) ==
    IF sys.classDir # "ok" THEN Walked(<<>>, TRUE, n)
    ELSE devicesLoop(sys, 1, n, cancelAt, <<>>)

devicesFromRoot(sys, n, cancelAt) ==
    IF sys.classDir = "notexist" THEN Walked(<<>>, FALSE, n)
    ELSE IF sys.classDir # "ok" THEN Walked(<<>>, TRUE, n)
    ELSE devicesLoop(sys, 1, n, cancelAt, <<>>)

\* SysfsProvider.Devices
Devices(sys, cancelAt) ==
    IF Cancelled(1, cancelAt) THEN Walked(<<>>, TRUE, 1)
    ELSE devicesFromRoot(sys, 1, cancelAt)

(***************************************************************************)
(* Sysfs trees                                                             *)
(***************************************************************************)
PortEntry(name, isDir, counters, hwCounters) ==
    [name |-> name, isDir |-> isDir, counters |-> counters,
     hwCounters |-> hwCounters, stats |-> ("port_rcv_data" :> 5),
     hwStats |-> ("symbol_error" :> 1), attr |-> Attr("InfiniBand", "")]

DeviceEntry(name, kind, portsDir, ports) ==
    [name |-> name, kind |-> kind, portsDir |-> portsDir, ports |-> ports]

Sysfs(classDir, exclude, entries) ==
    [classDir |-> classDir, exclude |-> exclude, entries |-> entries]

\* a device with two healthy ports, the second without hw_counters, and in
\* its ports directory a file and a directory that is not a port number
HealthyDevice(name) ==
    DeviceEntry(name, "dir", "ok",
        <<PortEntry("1", TRUE, "ok", "ok"),
          PortEntry("2", TRUE, "ok", "notexist"),
          PortEntry("3", FALSE, "ok", "ok"),
          PortEntry("x", TRUE, "ok", "ok")>>)

\* a device with one port, whose reads end as given
OnePortDevice(name, kind, portsDir, counters, hwCounters) ==
    DeviceEntry(name, kind, portsDir,
        <<PortEntry("1", TRUE, counters, hwCounters)>>)

SysfsHealthy ==
    Sysfs("ok", {},
        <<HealthyDevice("mlx5_0"),
          OnePortDevice("mlx5_1", "symlinkDir", "ok", "ok", "ok")>>)

SysfsTrees ==
    {SysfsHealthy,
     \* the second device fails: counters, hw_counters, ports directory
     Sysfs("ok", {},
        <<HealthyDevice("mlx5_0"),
          OnePortDevice("mlx5_1", "dir", "ok", "error", "ok")>>),
     Sysfs("ok", {},
        <<HealthyDevice("mlx5_0"),
          OnePortDevice("mlx5_1", "dir", "ok", "ok", "error")>>),
     Sysfs("ok", {},
        <<HealthyDevice("mlx5_0"),
          OnePortDevice("mlx5_1", "dir", "error", "ok", "ok")>>),
     \* the first device fails: its port has no counters directory
     Sysfs("ok", {},
        <<OnePortDevice("mlx5_0", "dir", "ok", "notexist", "ok"),
          HealthyDevice("mlx5_1")>>),
     \* nothing fails: no ports directory, an excluded device that could not
     \* be read, an entry that is not a directory
     Sysfs("ok", {},
        <<OnePortDevice("mlx5_0", "dir", "notexist", "ok", "ok"),
          OnePortDevice("mlx5_1", "dir", "ok", "ok", "ok")>>),
     Sysfs("ok", {"mlx5_0"},
        <<OnePortDevice("mlx5_0", "dir", "ok", "error", "ok"),
          OnePortDevice("mlx5_1", "dir", "ok", "ok", "ok")>>),
     Sysfs("ok", {},
        <<OnePortDevice("README", "file", "ok", "error", "ok"),
          OnePortDevice("mlx5_1", "dir", "ok", "ok", "ok")>>),
     \* an excluded device that could not be read, and exclusions that are
     \* not the name of the other device: spaces around it, a part of it
     Sysfs("ok", {"mlx5_0", " mlx5_1", "mlx5_1 ", "mlx5"},
        <<OnePortDevice("mlx5_0", "dir", "error", "ok", "ok"),
          OnePortDevice("mlx5_1", "dir", "ok", "ok", "ok")>>),
     \* the class directory is empty, is missing, or cannot be read
     Sysfs("ok", {}, <<>>),
     Sysfs("notexist", {}, <<>>),
     Sysfs("error", {}, <<>>)}

(***************************************************************************)
(* State                                                                   *)
(***************************************************************************)
VARIABLES
    \* RdmaCollector
    netDevStatsProvider,   \* TRUE iff a stats source is configured
    portStatMetrics, portStatLookup, portHwMetrics, portHwStatLookup,
    scrapeErrors, rocePFCScrapeErrors,
    collectMu,             \* 0 when free, else the goroutine holding it
    ctxValue,              \* the context stored for the next Collect
    \* Server.handleMetrics, one activation per request
    hpc,                   \* idle, select, done
    ctxDone,               \* the request's ctx is done (deadline or cancel)
    resultCh,              \* the one-slot channel: <<>> or <<gatherResult>>
    response,              \* what the handler wrote to w
    \* the gather goroutine of the request and its Collect frame
    gpc,                   \* none, gather, devices, ports, send, exit
    ctx,                   \* the ctx Collect loaded
    devices,               \* the device list the enumerator returned
    pos,                   \* ports of Flatten(devices) already processed
    netDevStatsCache,
    ch,                    \* the samples Collect sent so far
    \* history of the current scrape, not program state
    atEntry,               \* both error counters when the lock was taken
    enumErr,               \* the enumerator failed
    statsCalls,            \* per interface, calls of the stats source
    firedFirst,            \* the request's ctx was done before its result
                           \* was in resultCh
    passedCtx,             \* the contexts Collect passed to the enumerator
                           \* and to the stats source
    \* a caller of Describe
    described,             \* the descriptors its last call sent
    \* SysfsProvider.Devices
    sysfs,                 \* the sysfs tree
    walker,                \* the goroutine whose call of Devices came last
    walked,                \* the checks of ctx.Err() its walk has passed
    cancelAt,              \* the check that found the context done, or 0
    \* EthtoolStatsProvider
    providerMu,            \* p.mu: 0 when free, else the goroutine holding it
    statsFrame,            \* per goroutine, its last call of Stats
    \* main
    osInput,               \* os.Args[1:] and the environment of the process
    config,                \* what config.Parse returned, once main called it
    ethtoolClient          \* p.client and its use: whether main's signal
                           \* came, whether p.client is nil, the calls of
                           \* p.Close so far and those of p.client.Close

registryVars ==
    <<portStatMetrics, portStatLookup, portHwMetrics, portHwStatLookup>>

counterVars == <<scrapeErrors, rocePFCScrapeErrors>>

handlerVars == <<hpc, ctxDone, resultCh, response>>

frameVars == <<ctx, devices, pos, netDevStatsCache, ch>>

historyVars == <<atEntry, enumErr, statsCalls, firedFirst, passedCtx>>

sysfsVars == <<sysfs, walker, walked, cancelAt>>

ethtoolVars == <<providerMu, statsFrame, ethtoolClient>>

mainVars == <<osInput, config>>

vars == <<netDevStatsProvider, registryVars, counterVars, collectMu,
          ctxValue, handlerVars, gpc, frameVars, historyVars, described,
          sysfsVars, ethtoolVars, mainVars>>

\* a context is context.Background(), a request's context (the request's
\* number), or nil
Background == 0

NilContext == 0 - 1

NoResponse == [status |-> 0, body |-> <<>>]

\* a call of EthtoolStatsProvider.Stats: where it is (none, locked,
\* returned), the port of the walk it was made for, what it returns, the
\* error it returns (nil, ctx, client), whether it called the client
NoStatsCall ==
    [pc |-> "none", pos |-> 0, outcome |-> [stats |-> EmptyMap, err |-> FALSE],
     err |-> "nil", called |-> FALSE]

(***************************************************************************)
(* config.Parse                                                            *)
(***************************************************************************)
defaultListenAddress == ":9879"
defaultMetricsPath == "/metrics"
defaultHealthPath == "/healthz"
defaultLogLevel == "info"
defaultSysfsRoot == "/sys"
\* 5 * time.Second; durations are counted in seconds
defaultTimeout == 5

\* the string flags of Parse, each with its environment variable and its
\* built-in default
StringFlags == {"listen-address", "metrics-path", "health-path",
                "log-level", "sysfs-root"}

FlagNames == StringFlags \cup {"scrape-timeout", "version"}

EnvKey(flagName) ==
    CASE flagName = "listen-address" -> "RDMA_EXPORTER_LISTEN_ADDRESS"
      [] flagName = "metrics-path" -> "RDMA_EXPORTER_METRICS_PATH"
      [] flagName = "health-path" -> "RDMA_EXPORTER_HEALTH_PATH"
      [] flagName = "log-level" -> "RDMA_EXPORTER_LOG_LEVEL"
      [] flagName = "sysfs-root" -> "RDMA_EXPORTER_SYSFS_ROOT"
      [] flagName = "scrape-timeout" -> "RDMA_EXPORTER_SCRAPE_TIMEOUT"

EnvKeys == {EnvKey(f) : f \in FlagNames \ {"version"}}

BuiltIn(flagName) ==
    CASE flagName = "listen-address" -> defaultListenAddress
      [] flagName = "metrics-path" -> defaultMetricsPath
      [] flagName = "health-path" -> defaultHealthPath
      [] flagName = "log-level" -> defaultLogLevel
      [] flagName = "sysfs-root" -> defaultSysfsRoot

\* strings.TrimSpace, for strings whose only white space is the blank
RECURSIVE TrimLeft(_)
TrimLeft(s) ==
    IF Len(s) > 0 /\ CharAt(s, 1) = " " THEN TrimLeft(SubSeq(s, 2, Len(s)))
    ELSE s

RECURSIVE TrimRight(_)
TrimRight(s) ==
    IF Len(s) > 0 /\ CharAt(s, Len(s)) = " "
    THEN TrimRight(SubSeq(s, 1, Len(s) - 1))
    ELSE s

TrimSpace(s) == TrimRight(TrimLeft(s))

\* strings.ToLower, for ASCII strings
RECURSIVE StringsToLower(_)
StringsToLower(s) ==
    IF s = "" THEN ""
    ELSE (IF IsUpper(CharAt(s, 1)) THEN ToLower(CharAt(s, 1))
          ELSE CharAt(s, 1)) \o StringsToLower(SubSeq(s, 2, Len(s)))

\* time.ParseDuration, for durations written as digits and one of the units
\* s and m: the seconds, or an error
ParseDuration(s) ==
    IF /\ Len(s) >= 2
       /\ CharAt(s, Len(s)) \in {"s", "m"}
       /\ \A i \in 1..(Len(s) - 1) : IsDigit(CharAt(s, i))
    THEN [ok |-> TRUE,
          value |-> Atoi(SubSeq(s, 1, Len(s) - 1)).value
                        * (IF CharAt(s, Len(s)) = "m" THEN 60 ELSE 1)]
    ELSE [ok |-> FALSE, value |-> 0]

\* the slog levels
LevelDebug == 0 - 4
LevelInfo == 0
LevelWarn == 4
LevelError == 8

parseLogLevel(value) ==
    CASE StringsToLower(TrimSpace(value)) = "debug" ->
             [ok |-> TRUE, level |-> LevelDebug]
      [] StringsToLower(TrimSpace(value)) \in {"info", ""} ->
             [ok |-> TRUE, level |-> LevelInfo]
      [] StringsToLower(TrimSpace(value)) \in {"warn", "warning"} ->
             [ok |-> TRUE, level |-> LevelWarn]
      [] StringsToLower(TrimSpace(value)) \in {"error", "err"} ->
             [ok |-> TRUE, level |-> LevelError]
      [] OTHER -> [ok |-> FALSE, level |-> LevelInfo]

envOrDefault(env, key, fallback) ==
    IF TrimSpace(env[key]) # "" THEN TrimSpace(env[key]) ELSE fallback

\* a flag of the command line: whether it is given, and with what value
NoFlag == [given |-> FALSE, value |-> ""]

Flag(value) == [given |-> TRUE, value |-> value]

\* fs.String(name, def, ...) after fs.Parse(args)
FlagString(args, name, def) ==
    IF args[name].given THEN args[name].value ELSE def

\* the zero Config and the error Parse returns with it
ConfigError(err) ==
    [err |-> err, ListenAddress |-> "", MetricsPath |-> "",
     HealthPath |-> "", LogLevel |-> LevelInfo, SysfsRoot |-> "",
     ScrapeTimeout |-> 0, ShowVersion |-> FALSE]

\* Parse from fs.Parse on; timeoutDefault is the default of scrape-timeout
ParseFlags(args, env, timeoutDefault) ==
    IF args["scrape-timeout"].given
           /\ ~ParseDuration(args["scrape-timeout"].value).ok
    THEN ConfigError("parse flags")
    ELSE IF ~parseLogLevel(FlagString(args, "log-level",
                 envOrDefault(env, EnvKey("log-level"), defaultLogLevel))).ok
    THEN ConfigError("invalid log level")
    ELSE [err |-> "",
          ListenAddress |-> FlagString(args, "listen-address",
              envOrDefault(env, EnvKey("listen-address"),
                           defaultListenAddress)),
          MetricsPath |-> FlagString(args, "metrics-path",
              envOrDefault(env, EnvKey("metrics-path"), defaultMetricsPath)),
          HealthPath |-> FlagString(args, "health-path",
              envOrDefault(env, EnvKey("health-path"), defaultHealthPath)),
          LogLevel |-> parseLogLevel(FlagString(args, "log-level",
              envOrDefault(env, EnvKey("log-level"),
                           defaultLogLevel))).level,
          SysfsRoot |-> FlagString(args, "sysfs-root",
              envOrDefault(env, EnvKey("sysfs-root"), defaultSysfsRoot)),
          ScrapeTimeout |->
              IF args["scrape-timeout"].given
              THEN ParseDuration(args["scrape-timeout"].value).value
              ELSE timeoutDefault,
          ShowVersion |-> args["version"].given]

Parse(args, env) ==
    IF env[EnvKey("scrape-timeout")] # ""
    THEN IF ~ParseDuration(env[EnvKey("scrape-timeout")]).ok
         THEN ConfigError("invalid RDMA_EXPORTER_SCRAPE_TIMEOUT")
         ELSE ParseFlags(args, env,
                  ParseDuration(env[EnvKey("scrape-timeout")]).value)
    ELSE ParseFlags(args, env, defaultTimeout)

\* a process started with no flag and no variable set
NoInput ==
    [args |-> [f \in FlagNames |-> NoFlag], env |-> [k \in EnvKeys |-> ""]]

\* main has not called Parse yet
NotParsed == [err |-> "not parsed"]

\* the values a flag is given and a variable is set to in the model
FlagValues(flagName) ==
    CASE flagName = "listen-address" -> {"0.0.0.0:1234", ""}
      [] flagName = "log-level" -> {"error", "loud"}
      [] flagName = "scrape-timeout" -> {"3s", "xyz"}
      [] flagName = "version" -> {"true"}
      [] OTHER -> {"/flag"}

EnvValues(flagName) ==
    CASE flagName = "listen-address" ->
             {"127.0.0.1:9999", " 127.0.0.1:9999 ", " "}
      [] flagName = "log-level" -> {"debug", " WARN ", "loud", " "}
      [] flagName = "scrape-timeout" -> {"2s", "1m", "abc", " "}
      [] flagName = "version" -> {}
      [] OTHER -> {"/env"}

Touches ==
    {[flag |-> TRUE, name |-> f, value |-> v] :
        f \in FlagNames, v \in {"0.0.0.0:1234", "", "error", "loud", "3s",
                                "xyz", "true", "/flag"}}
    \cup {[flag |-> FALSE, name |-> f, value |-> v] :
        f \in FlagNames, v \in {"127.0.0.1:9999", " 127.0.0.1:9999 ", " ",
                                "debug", " WARN ", "loud", "2s", "1m", "abc",
                                "/env"}}

Touch(input, t) ==
    IF t.flag THEN [input EXCEPT !.args[t.name] = Flag(t.value)]
    ELSE [input EXCEPT !.env[EnvKey(t.name)] = t.value]

ValidTouches ==
    {t \in Touches : t.value \in (IF t.flag THEN FlagValues(t.name)
                                  ELSE EnvValues(t.name))}

\* what a process is started with: at most two flags or variables at once
ConfigInputs ==
    {Touch(Touch(NoInput, t1), t2) : t1, t2 \in ValidTouches}
        \cup {NoInput}

\* newEthtoolStatsProvider(client), in a process no signal has reached
NewEthtoolClient ==
    [shutdown |-> FALSE, isNil |-> FALSE, closeCalls |-> 0, clientCloses |-> 0]

\* the state New leaves; provider tells whether the option
\* WithNetDevStatsProvider was given
InitProcess(provider, input, cfg) ==
    /\ netDevStatsProvider = provider
    /\ portStatMetrics = EmptyMap
    /\ portStatLookup = EmptyMap
    /\ portHwMetrics = EmptyMap
    /\ portHwStatLookup = EmptyMap
    /\ scrapeErrors = 0
    /\ rocePFCScrapeErrors = 0
    /\ collectMu = 0
    /\ ctxValue = Background
    /\ hpc = [r \in Requests |-> "idle"]
    /\ ctxDone = [r \in Requests |-> FALSE]
    /\ resultCh = [r \in Requests |-> <<>>]
    /\ response = [r \in Requests |-> NoResponse]
    /\ gpc = [r \in Requests |-> "none"]
    /\ ctx = [r \in Requests |-> Background]
    /\ devices = [r \in Requests |-> <<>>]
    /\ pos = [r \in Requests |-> 0]
    /\ netDevStatsCache = [r \in Requests |-> EmptyMap]
    /\ ch = [r \in Requests |-> <<>>]
    /\ atEntry = [r \in Requests |-> <<0, 0>>]
    /\ enumErr = [r \in Requests |-> FALSE]
    /\ statsCalls = [r \in Requests |-> EmptyMap]
    /\ firedFirst = [r \in Requests |-> FALSE]
    /\ passedCtx = [r \in Requests |-> {}]
    /\ described = {}
    /\ providerMu = 0
    /\ statsFrame = [r \in Requests |-> NoStatsCall]
    /\ ethtoolClient = NewEthtoolClient
    /\ osInput = input
    /\ config = cfg

\* the same in a process started with no flag and no variable set, after
\* main has read its configuration
InitWith(provider) ==
    InitProcess(provider, NoInput, Parse(NoInput.args, NoInput.env))

\* the sysfs tree the provider reads, before any call of Devices
InitWalk(tree) ==
    /\ sysfs = tree
    /\ walker = 0
    /\ walked = 0
    /\ cancelAt = 0

\* main configures the stats source unless PFC metrics are disabled
Init == InitWith(TRUE) /\ InitWalk(SysfsHealthy)

InitScrape ==
    /\ \E provider \in BOOLEAN : InitWith(provider)
    /\ InitWalk(SysfsHealthy)

InitSysfs == InitWith(TRUE) /\ \E tree \in SysfsTrees : InitWalk(tree)

(***************************************************************************)
(* RdmaCollector.SetContext, ResetContext                                  *)
(***************************************************************************)
SetContext(c) == IF c = NilContext THEN Background ELSE c

ResetContext == Background

(***************************************************************************)
(* Server.handleMetrics                                                    *)
(***************************************************************************)
\* registry.Gather(): the samples Collect sent, and an error when two of
\* them have the same name and label values or one name has two help texts
GatherHasError(samples) ==
    \E i, j \in 1..Len(samples) :
        /\ i < j
        /\ samples[i].desc.fqName = samples[j].desc.fqName
        /\ \/ samples[i].labelValues = samples[j].labelValues
           \/ samples[i].desc.help # samples[j].desc.help

Gather(samples) == [metrics |-> samples, err |-> GatherHasError(samples)]

\* entry of the handler up to the go statement: the request's ctx is derived,
\* stored in the collector, and the gather goroutine is started.  Requests
\* are numbered in the order their handlers start.
HandleMetrics(r) ==
    /\ hpc[r] = "idle"
    /\ \A q \in Requests : q < r => hpc[q] # "idle"
    /\ hpc' = [hpc EXCEPT ![r] = "select"]
    /\ ctxValue' = SetContext(r)
    /\ gpc' = [gpc EXCEPT ![r] = "gather"]
    /\ UNCHANGED <<mainVars, ethtoolVars, sysfsVars,
                   netDevStatsProvider, registryVars, counterVars, collectMu,
                   ctxDone, resultCh, response, frameVars, historyVars, described>>

\* the request's ctx becomes done: the scrape timeout elapses or the client
\* goes away
CtxDone(r) ==
    /\ hpc[r] = "select"
    /\ ~ctxDone[r]
    /\ ctxDone' = [ctxDone EXCEPT ![r] = TRUE]
    /\ firedFirst' = [firedFirst EXCEPT ![r] = (resultCh[r] = <<>>)]
    /\ UNCHANGED <<mainVars, ethtoolVars, sysfsVars,
                   netDevStatsProvider, registryVars, counterVars, collectMu,
                   ctxValue, hpc, resultCh, response, gpc, frameVars,
                   atEntry, enumErr, statsCalls, passedCtx, described>>

\* what the handler writes after the select: recv is TRUE for the case that
\* received res from resultCh, FALSE for the case <-ctx.Done()
\* the case <-ctx.Done() falls through to the encoding of the result
ReplyHidesGatherError(recv, res) ==
    IF ~recv THEN [status |-> 504, body |-> <<>>]
    ELSE [status |-> 200, body |-> res.metrics]

ReplyFallsThrough(recv, res) ==
    IF ~recv THEN [status |-> 200, body |-> <<>>]
    ELSE IF res.err THEN [status |-> 500, body |-> <<>>]
    ELSE [status |-> 200, body |-> res.metrics]

Reply(recv, res) ==
    IF ~recv THEN [status |-> 504, body |-> <<>>]
    ELSE IF res.err THEN [status |-> 500, body |-> <<>>]
    ELSE [status |-> 200, body |-> res.metrics]

\* the metric families of a gather result, by name in the order Gather
\* returns and the handler encodes them
FamilyNames(metrics) ==
    IF metrics = <<>> THEN <<>>
    ELSE SortSet({metrics[i].desc.fqName : i \in 1..Len(metrics)})

\* the places where the loop over the families can end: 0 when no Encode
\* fails, k when the Encode of the k-th family returns an error
EncodeFailures(metrics, mayFail) ==
    IF mayFail THEN 0..Len(FamilyNames(metrics)) ELSE {0}

\* the families written before the loop ended
Encoded(metrics, failAt) ==
    IF failAt = 0 THEN metrics
    ELSE SelectSeq(metrics,
             LAMBDA m : \E j \in 1..(failAt - 1) :
                           FamilyNames(metrics)[j] = m.desc.fqName)

\* the response after the encode loop; nothing is encoded after http.Error
Encode(reply, failAt) ==
    IF reply.status = 200 THEN [reply EXCEPT !.body = Encoded(@, failAt)]
    ELSE reply

\* the select and the rest of the handler.  The select takes a case that is
\* ready; with both ready it takes either.  (A handler that waits in the
\* select is woken by the first case that becomes ready, which is this step
\* taken at that moment.)  The deferred calls follow: ResetContext, cancel.
\* mayFail tells whether encoder.Encode can return an error.
HandleReply(r, mayFail) ==
    /\ hpc[r] = "select"
    /\ \/ /\ resultCh[r] # <<>>
          /\ \E failAt \in EncodeFailures(resultCh[r][1].metrics, mayFail) :
                response' = [response EXCEPT ![r] =
                                Encode(Reply(TRUE, resultCh[r][1]), failAt)]
          /\ resultCh' = [resultCh EXCEPT ![r] = <<>>]
       \/ /\ ctxDone[r]
          /\ response' = [response EXCEPT ![r] = Reply(FALSE, <<>>)]
          /\ UNCHANGED resultCh
    /\ hpc' = [hpc EXCEPT ![r] = "done"]
    /\ ctxValue' = ResetContext
    /\ ctxDone' = [ctxDone EXCEPT ![r] = TRUE]
    /\ firedFirst' = [firedFirst EXCEPT ![r] = FALSE]
    /\ UNCHANGED <<mainVars, ethtoolVars, sysfsVars,
                   netDevStatsProvider, registryVars, counterVars, collectMu,
                   gpc, frameVars, atEntry, enumErr, statsCalls, passedCtx,
                   described>>

\* the handler with a response writer that takes every write
HandleSelect(r) == HandleReply(r, FALSE)

\* a send on an unbuffered channel proceeds only with a receiver waiting
CanSendUnbuffered(buffer, receiving) == receiving

\* resultCh <- gatherResult{...} on make(chan gatherResult, 1): the send
\* proceeds when the buffer has room or a receiver waits
CanSend(buffer, receiving) == Len(buffer) < 1 \/ receiving

\* the goroutine's send on resultCh.  The goroutine ends here, and with it
\* the frame of its Collect.
GatherSend(g) ==
    /\ gpc[g] = "send"
    /\ CanSend(resultCh[g], hpc[g] = "select")
    /\ gpc' = [gpc EXCEPT ![g] = "exit"]
    /\ resultCh' = [resultCh EXCEPT ![g] = <<Gather(ch[g])>>]
    /\ ctx' = [ctx EXCEPT ![g] = Background]
    /\ devices' = [devices EXCEPT ![g] = <<>>]
    /\ pos' = [pos EXCEPT ![g] = 0]
    /\ netDevStatsCache' = [netDevStatsCache EXCEPT ![g] = EmptyMap]
    /\ ch' = [ch EXCEPT ![g] = <<>>]
    /\ atEntry' = [atEntry EXCEPT ![g] = <<0, 0>>]
    /\ enumErr' = [enumErr EXCEPT ![g] = FALSE]
    /\ statsCalls' = [statsCalls EXCEPT ![g] = EmptyMap]
    /\ passedCtx' = [passedCtx EXCEPT ![g] = {}]
    /\ UNCHANGED <<mainVars, ethtoolVars, sysfsVars,
                   netDevStatsProvider, registryVars, counterVars, collectMu,
                   ctxValue, hpc, ctxDone, response, firedFirst, described>>

(***************************************************************************)
(* RdmaCollector.Collect, run by the gather goroutine g                    *)
(***************************************************************************)
\* sync.Mutex: Lock returns only when no goroutine holds the mutex
UnlockedAlways(mu) == TRUE

UnlockedAfterTimeout(mu) == IF mu = 0 THEN TRUE ELSE hpc[mu] = "done"

Unlocked(mu) == mu = 0

\* the deferred collectMu.Unlock(), run on every return of Collect
UnlockForgotten(mu) == mu

Unlock(mu) == 0

\* the context Collect hands to the enumerator and to the stats source:
\* loaded is the local variable ctx, stored is what ctxValue holds now
callContextReloaded(loaded, stored) ==
    IF stored = NilContext THEN Background ELSE stored

callContext(loaded, stored) == loaded

\* collectMu.Lock() and the load of ctxValue
CollectLock(g) ==
    /\ gpc[g] = "gather"
    /\ Unlocked(collectMu)
    /\ collectMu' = g
    /\ ctx' = [ctx EXCEPT ![g] = IF ctxValue = NilContext THEN Background
                                 ELSE ctxValue]
    /\ gpc' = [gpc EXCEPT ![g] = "devices"]
    /\ atEntry' = [atEntry EXCEPT ![g] = <<scrapeErrors, rocePFCScrapeErrors>>]
    /\ UNCHANGED <<mainVars, ethtoolVars, sysfsVars,
                   netDevStatsProvider, registryVars, counterVars, ctxValue,
                   handlerVars, devices, pos, netDevStatsCache, ch, enumErr,
                   statsCalls, firedFirst, passedCtx, described>>

\* the cache of the scrape before is taken over
netDevStatsCacheKept(g) ==
    IF g > 1 THEN netDevStatsCache[g - 1] ELSE EmptyMap

\* netDevStatsCache := make(map[string]netDevStatsCacheEntry)
makeNetDevStatsCache(g) == EmptyMap

\* an aborted scrape counts as a failed PFC fetch too
CollectDevicesCountsBoth(g, snapshots) ==
    /\ gpc[g] = "devices"
    /\ passedCtx' = [passedCtx EXCEPT ![g] = {callContext(ctx[g], ctxValue)}]
    /\ \/ /\ scrapeErrors' = CounterInc(scrapeErrors)
          /\ rocePFCScrapeErrors' = CounterInc(rocePFCScrapeErrors)
          /\ ch' = [ch EXCEPT ![g] =
                       <<CounterCollect(scrapeErrorsDesc, scrapeErrors')>>]
          /\ collectMu' = Unlock(collectMu)
          /\ gpc' = [gpc EXCEPT ![g] = "send"]
          /\ enumErr' = [enumErr EXCEPT ![g] = TRUE]
          /\ UNCHANGED <<devices, netDevStatsCache>>
       \/ /\ \E snapshot \in snapshots :
                devices' = [devices EXCEPT ![g] = snapshot]
          /\ netDevStatsCache' =
                 [netDevStatsCache EXCEPT ![g] = makeNetDevStatsCache(g)]
          /\ gpc' = [gpc EXCEPT ![g] = "ports"]
          /\ UNCHANGED <<scrapeErrors, rocePFCScrapeErrors, ch, collectMu,
                         enumErr>>
    /\ UNCHANGED <<mainVars, ethtoolVars, sysfsVars,
                   netDevStatsProvider, registryVars,
                   ctxValue, handlerVars, ctx, pos, atEntry, statsCalls,
                   firedFirst, described>>

\* provider.Devices(ctx) returns: an error aborts the scrape, a device list
\* starts the walk with an empty stats cache
CollectDevices(g, snapshots) ==
    /\ gpc[g] = "devices"
    /\ passedCtx' = [passedCtx EXCEPT ![g] = {callContext(ctx[g], ctxValue)}]
    /\ \/ /\ scrapeErrors' = CounterInc(scrapeErrors)
          /\ ch' = [ch EXCEPT ![g] =
                       <<CounterCollect(scrapeErrorsDesc, scrapeErrors')>>]
          /\ collectMu' = Unlock(collectMu)
          /\ gpc' = [gpc EXCEPT ![g] = "send"]
          /\ enumErr' = [enumErr EXCEPT ![g] = TRUE]
          /\ UNCHANGED <<devices, netDevStatsCache>>
       \/ /\ \E snapshot \in snapshots :
                devices' = [devices EXCEPT ![g] = snapshot]
          /\ netDevStatsCache' =
                 [netDevStatsCache EXCEPT ![g] = makeNetDevStatsCache(g)]
          /\ gpc' = [gpc EXCEPT ![g] = "ports"]
          /\ UNCHANGED <<scrapeErrors, ch, collectMu, enumErr>>
    /\ UNCHANGED <<mainVars, ethtoolVars, sysfsVars,
                   netDevStatsProvider, registryVars, rocePFCScrapeErrors,
                   ctxValue, handlerVars, ctx, pos, atEntry, statsCalls,
                   firedFirst, described>>

\* the body of the loop over a device's ports, for the port item: S is the
\* registry with the samples sent so far, and the result adds what
\* collectRoCEPFCMetrics returned
collectPort(provider, item, S, cache, outcome) ==
    [S |-> CollectStats(sortedKeys(item.port.HwStats), 1, item.port.HwStats,
               TRUE, item.deviceName, Itoa(item.port.ID),
               CollectStats(sortedKeys(item.port.Stats), 1, item.port.Stats,
                   FALSE, item.deviceName, Itoa(item.port.ID), S)),
     pfc |-> collectRoCEPFCMetrics(provider, item.deviceName,
                 Itoa(item.port.ID), item.port.Attributes, cache, outcome),
     info |-> PortInfoSample(item.deviceName, Itoa(item.port.ID),
                             item.port.Attributes),
     netDev |-> item.port.Attributes.NetDev]

\* the effect of one iteration on the collector and on the frame of g
CollectPortDone(g, R) ==
    /\ portStatMetrics' = R.S.statMetrics
    /\ portStatLookup' = R.S.statLookup
    /\ portHwMetrics' = R.S.hwMetrics
    /\ portHwStatLookup' = R.S.hwLookup
    /\ netDevStatsCache' = [netDevStatsCache EXCEPT ![g] = R.pfc.cache]
    /\ rocePFCScrapeErrors' =
           IF R.pfc.errInc = 1 THEN CounterInc(rocePFCScrapeErrors)
           ELSE rocePFCScrapeErrors
    /\ ch' = [ch EXCEPT ![g] = Append(R.S.out \o R.pfc.out, R.info)]
    /\ statsCalls' = [statsCalls EXCEPT ![g] =
           IF R.pfc.called
           THEN Put(@, R.netDev,
                    IF R.netDev \in DOMAIN @ THEN @[R.netDev] + 1 ELSE 1)
           ELSE @]
    /\ passedCtx' = [passedCtx EXCEPT ![g] =
           IF R.pfc.called THEN @ \cup {callContext(ctx[g], ctxValue)}
           ELSE @]

\* one iteration of the loop over a device's ports
CollectPort(g, outcomes) ==
    /\ gpc[g] = "ports"
    /\ pos[g] < Len(Flatten(devices[g]))
    /\ \E outcome \in outcomes :
          CollectPortDone(g,
              collectPort(netDevStatsProvider,
                  Flatten(devices[g])[pos[g] + 1],
                  [statMetrics |-> portStatMetrics,
                   statLookup |-> portStatLookup,
                   hwMetrics |-> portHwMetrics,
                   hwLookup |-> portHwStatLookup,
                   out |-> ch[g]],
                  netDevStatsCache[g], outcome))
    /\ pos' = [pos EXCEPT ![g] = @ + 1]
    /\ UNCHANGED <<mainVars, ethtoolVars, sysfsVars,
                   netDevStatsProvider, scrapeErrors, collectMu, ctxValue,
                   handlerVars, gpc, ctx, devices, atEntry, enumErr,
                   firedFirst, described>>

\* after the last device: both error counters are sent and the deferred
\* Unlock runs
CollectFinish(g) ==
    /\ gpc[g] = "ports"
    /\ pos[g] = Len(Flatten(devices[g]))
    /\ ch' = [ch EXCEPT ![g] =
                 @ \o <<CounterCollect(scrapeErrorsDesc, scrapeErrors),
                        CounterCollect(rocePFCScrapeErrorsDesc,
                                       rocePFCScrapeErrors)>>]
    /\ collectMu' = Unlock(collectMu)
    /\ gpc' = [gpc EXCEPT ![g] = "send"]
    /\ UNCHANGED <<mainVars, ethtoolVars, sysfsVars,
                   netDevStatsProvider, registryVars, counterVars, ctxValue,
                   handlerVars, ctx, devices, pos, netDevStatsCache,
                   historyVars, described>>

(***************************************************************************)
(* RdmaCollector.Describe: the six fixed descriptors, then the descriptors *)
(* of both registries copied while collectMu is held                       *)
(***************************************************************************)
FixedDescs ==
    {portInfoDesc, rocePFCPauseFramesDesc, rocePFCPauseDurationDesc,
     rocePFCPauseTransitionsDesc, scrapeErrorsDesc, rocePFCScrapeErrorsDesc}

DescribeWithoutLock ==
    /\ described' = FixedDescs
           \cup {portStatMetrics[n].desc : n \in DOMAIN portStatMetrics}
           \cup {portHwMetrics[n].desc : n \in DOMAIN portHwMetrics}
    /\ described' # described
    /\ UNCHANGED <<mainVars, ethtoolVars, sysfsVars,
                   netDevStatsProvider, registryVars, counterVars, collectMu,
                   ctxValue, handlerVars, gpc, frameVars, historyVars>>

\* the caller of Describe returns without collectMu.Unlock()
DescribeKeepsLock ==
    /\ Unlocked(collectMu)
    /\ collectMu' = NumRequests + 1
    /\ described' = FixedDescs
           \cup {portStatMetrics[n].desc : n \in DOMAIN portStatMetrics}
           \cup {portHwMetrics[n].desc : n \in DOMAIN portHwMetrics}
    /\ described' # described
    /\ UNCHANGED <<mainVars, ethtoolVars, sysfsVars,
                   netDevStatsProvider, registryVars, counterVars,
                   ctxValue, handlerVars, gpc, frameVars, historyVars>>

Describe ==
    /\ Unlocked(collectMu)
    /\ described' = FixedDescs
           \cup {portStatMetrics[n].desc : n \in DOMAIN portStatMetrics}
           \cup {portHwMetrics[n].desc : n \in DOMAIN portHwMetrics}
    /\ described' # described
    /\ UNCHANGED <<mainVars, ethtoolVars, sysfsVars,
                   netDevStatsProvider, registryVars, counterVars, collectMu,
                   ctxValue, handlerVars, gpc, frameVars, historyVars>>

(***************************************************************************)
(* Specifications                                                          *)
(***************************************************************************)
\* requests arrive at any time and their contexts may fire
Next ==
    \/ Describe
    \/ \E r \in Requests :
        \/ HandleMetrics(r)
        \/ CtxDone(r)
        \/ HandleSelect(r)
        \/ GatherSend(r)
        \/ CollectLock(r)
        \/ CollectDevices(r, FewSnapshots)
        \/ CollectPort(r, FewOutcomes)
        \/ CollectFinish(r)

Spec == Init /\ [][Next]_vars

\* a request is accepted only when the previous one and its goroutine have
\* finished
Quiet == \A q \in Requests : hpc[q] \in {"idle", "done"}
                             /\ gpc[q] \in {"none", "exit"}

HandleMetricsAlone(r) == Quiet /\ HandleMetrics(r)

NextScrape ==
    \E r \in Requests :
        \/ HandleMetricsAlone(r)
        \/ HandleSelect(r)
        \/ GatherSend(r)
        \/ CollectLock(r)
        \/ CollectDevices(r, Snapshots)
        \/ CollectPort(r, StatsOutcomes)
        \/ CollectFinish(r)

SpecScrape == InitScrape /\ [][NextScrape]_vars

(***************************************************************************)
(* main: cfg, err := config.Parse(os.Args[1:])                             *)
(***************************************************************************)
ParseConfig ==
    /\ config = NotParsed
    /\ config' = Parse(osInput.args, osInput.env)
    /\ UNCHANGED <<osInput, ethtoolVars, sysfsVars, netDevStatsProvider,
                   registryVars, counterVars, collectMu, ctxValue,
                   handlerVars, gpc, frameVars, historyVars, described>>

\* the process before main has read its configuration
InitConfig ==
    /\ \E input \in ConfigInputs :
           InitProcess(TRUE, input, NotParsed)
    /\ InitWalk(SysfsHealthy)

NextConfig == ParseConfig

SpecConfig == InitConfig /\ [][NextConfig]_vars

(***************************************************************************)
(* Scheduling                                                              *)
(***************************************************************************)
\* the port loop of g has a port left: CollectPort(g, .) can be taken
PortsLeft(g) == gpc[g] = "ports" /\ pos[g] < Len(Flatten(devices[g]))

\* CollectPort(g, .) is the one step that takes the loop to its next port
PortLoopStep(g) == PortsLeft(g) /\ pos'[g] = pos[g] + 1

\* weak fairness of CollectPort(g, .), written with what ENABLED amounts to
PortLoopFair(g) == []<>(~PortsLeft(g)) \/ []<><<PortLoopStep(g)>>_vars

\* the scheduler runs every goroutine that can take a step: the enumerator
\* and the stats source return, the sink takes every sample, a mutex that is
\* free is given to a goroutine waiting for it, and a send that can proceed
\* does
Fairness(g) ==
    /\ WF_vars(CollectLock(g))
    /\ WF_vars(CollectDevices(g, FewSnapshots))
    /\ PortLoopFair(g)
    /\ WF_vars(CollectFinish(g))
    /\ WF_vars(GatherSend(g))

\* requests arrive at any time, their contexts stay live, and Describe is
\* called at any time
NextCollect ==
    \/ Describe
    \/ \E r \in Requests :
        \/ HandleMetrics(r)
        \/ HandleSelect(r)
        \/ GatherSend(r)
        \/ CollectLock(r)
        \/ CollectDevices(r, FewSnapshots)
        \/ CollectPort(r, FewOutcomes)
        \/ CollectFinish(r)

SpecFairCollect ==
    Init /\ [][NextCollect]_vars /\ \A g \in Requests : Fairness(g)

\* one request at a time, whose context may fire at any time
NextSend ==
    \E r \in Requests :
        \/ HandleMetricsAlone(r)
        \/ CtxDone(r)
        \/ HandleSelect(r)
        \/ GatherSend(r)
        \/ CollectLock(r)
        \/ CollectDevices(r, FewSnapshots)
        \/ CollectPort(r, FewOutcomes)
        \/ CollectFinish(r)

SpecFairSend ==
    Init /\ [][NextSend]_vars /\ \A g \in Requests : Fairness(g)

\* one request at a time, answered through a response writer that may fail
NextEncode ==
    \E r \in Requests :
        \/ HandleMetricsAlone(r)
        \/ HandleReply(r, TRUE)
        \/ GatherSend(r)
        \/ CollectLock(r)
        \/ CollectDevices(r, {SnapBasic, SnapEmpty})
        \/ CollectPort(r, StatsOutcomes)
        \/ CollectFinish(r)

SpecEncode == InitScrape /\ [][NextEncode]_vars

\* names a netdev may report: PFC counters of both directions, of every
\* priority and of every kind, and names that miss the pattern by a little
PatternNames ==
    {PFCName("rx", priority, rocePFCMetricKindFrames) :
        priority \in PriorityDigits}
    \cup {PFCName(direction, priority, kind) :
             direction \in {"rx", "tx"}, priority \in {"0", "7"},
             kind \in PFCKinds}
    \cup {"rx_prio8_pause", "tx_prio9_pause", "rx_prio_pause",
          "rx_prio00_pause", "rx_prio0_pause_frames", "rx_prio0_pause_",
          "tx_prio7_pause_durations", "tx_prio7_pause_duration_",
          "rx_prio0_pauseduration", "rx_prio0_pause_duration_transition",
          "xrx_prio0_pause", " rx_prio0_pause", "rx_prio0_pause ",
          "rx_prio0_pauses", "RX_prio0_pause", "rx_prio0_paus", "rx_prioA_pause",
          "px_prio0_pause", "rx_prio2_packets", ""}

\* a successful fetch that reports one name
PatternOutcomes ==
    {[stats |-> (name :> 7), err |-> FALSE] : name \in PatternNames}

\* one request at a time over one Ethernet port whose interface reports one
\* name per scrape
NextPattern ==
    \E r \in Requests :
        \/ HandleMetricsAlone(r)
        \/ HandleSelect(r)
        \/ GatherSend(r)
        \/ CollectLock(r)
        \/ CollectDevices(r, FewSnapshots)
        \/ CollectPort(r, PatternOutcomes)
        \/ CollectFinish(r)

SpecPattern == Init /\ [][NextPattern]_vars

\* raw counter names sysfs may hold: table names in the table's spelling and
\* in other cases, names with characters outside [a-z0-9_], a leading digit,
\* the empty name and names without any ASCII character
CanonNames ==
    {"", "é", "日é", "-", "_", "1", "A", "9lives", "a-b", "unknown",
     "port_rcv_data", "PORT_RCV_DATA", "Port_Rcv_Data", "port.rcv.data",
     "symbol_error", "Symbol_Error", "link_downed", "LINK_DOWNED",
     "lifespan", "LifeSpan", "VL15_dropped", "vl15_dropped", "VL15_DROPPED"}

\* one InfiniBand port with one primary counter
SnapNamed(name) ==
    <<MkDevice("mlx5_0",
        <<MkPort(1, (name :> 1), EmptyMap, Attr("InfiniBand", ""))>>)>>

CanonSnapshots == {SnapNamed(name) : name \in CanonNames}

\* one request at a time over one port whose only counter has any of the
\* names
NextCanon ==
    \E r \in Requests :
        \/ HandleMetricsAlone(r)
        \/ HandleSelect(r)
        \/ GatherSend(r)
        \/ CollectLock(r)
        \/ CollectDevices(r, CanonSnapshots)
        \/ CollectPort(r, StatsOutcomes)
        \/ CollectFinish(r)

SpecCanon == Init /\ [][NextCanon]_vars

\* no goroutine is inside Collect
CollectIdle == \A q \in Requests : gpc[q] \in {"none", "send", "exit"}

\* a request arrives when the Collect of every earlier one has returned; its
\* result may still be on its way to its handler
HandleMetricsAfterCollect(r) == CollectIdle /\ HandleMetrics(r)

\* snapshots whose ports have several counters, or several PFC names
RepeatSnapshots == {SnapBasic, SnapShared, SnapAlias, SnapCollide}

\* scrapes one after the other, each starting as soon as the one before has
\* left Collect
NextRepeat ==
    \E r \in Requests :
        \/ HandleMetricsAfterCollect(r)
        \/ HandleSelect(r)
        \/ GatherSend(r)
        \/ CollectLock(r)
        \/ CollectDevices(r, RepeatSnapshots)
        \/ CollectPort(r, StatsOutcomes)
        \/ CollectFinish(r)

SpecRepeat == Init /\ [][NextRepeat]_vars

\* one request at a time, and Describe called at any time
NextDescribe == NextScrape \/ Describe

SpecDescribe == InitScrape /\ [][NextDescribe]_vars

\* ctx.Err() != nil: the background context is never done
CtxErr(c) == IF c \in Requests THEN ctxDone[c] ELSE FALSE

\* the enumerator of the exporter, SysfsProvider.Devices, returns an error
\* when it finds the context it was given done
CollectDevicesCtx(g, snapshots) ==
    /\ CollectDevices(g, snapshots)
    /\ CtxErr(callContext(ctx[g], ctxValue)) => enumErr'[g]

\* one check of ctx.Err() in the call of Devices that Collect makes: the
\* first is the one at the entry of Devices
WalkCheck(g) ==
    /\ gpc[g] = "devices"
    /\ IF walker # g
       THEN /\ walker' = g
            /\ walked' = IF CtxErr(callContext(ctx[g], ctxValue)) THEN 0 ELSE 1
            /\ cancelAt' = IF CtxErr(callContext(ctx[g], ctxValue)) THEN 1
                           ELSE 0
       ELSE /\ cancelAt = 0
            /\ walked < Devices(sysfs, 0).n
            /\ walker' = walker
            /\ walked' = IF CtxErr(callContext(ctx[g], ctxValue)) THEN walked
                         ELSE walked + 1
            /\ cancelAt' = IF CtxErr(callContext(ctx[g], ctxValue))
                           THEN walked + 1 ELSE 0
    /\ UNCHANGED <<mainVars, ethtoolVars,
                   sysfs, netDevStatsProvider, registryVars, counterVars,
                   collectMu, ctxValue, handlerVars, gpc, frameVars,
                   historyVars, described>>

\* Collect with what Devices returned
CollectDevicesResult(g, result) ==
    /\ CollectDevices(g, IF result.err THEN {} ELSE {result.value})
    /\ enumErr'[g] = result.err

\* Devices returns: a check found the context done, or the walk is over
CollectSysfs(g) ==
    /\ walker = g
    /\ cancelAt # 0 \/ walked = Devices(sysfs, 0).n
    /\ CollectDevicesResult(g, Devices(sysfs, cancelAt))

\* one request at a time over the sysfs trees, whose context may fire at any
\* time, also during the walk
NextSysfs ==
    \E r \in Requests :
        \/ HandleMetricsAlone(r)
        \/ CtxDone(r)
        \/ HandleSelect(r)
        \/ GatherSend(r)
        \/ CollectLock(r)
        \/ WalkCheck(r)
        \/ CollectSysfs(r)
        \/ CollectPort(r, StatsOutcomes)
        \/ CollectFinish(r)

SpecSysfs == InitSysfs /\ [][NextSysfs]_vars

(***************************************************************************)
(* EthtoolStatsProvider.Stats, called by readNetDevStatsWithCache for the  *)
(* port the walk of g has reached                                          *)
(***************************************************************************)
\* Stats returns ctx.Err()
CtxFailure ==
    [outcome |-> [stats |-> EmptyMap, err |-> TRUE], err |-> "ctx",
     called |-> FALSE]

\* the second check is left out: the client is called whatever the context
StatsLockedUnchecked(done, clientOutcome) ==
    [outcome |-> [stats |-> clientOutcome.stats, err |-> clientOutcome.err],
     err |-> IF clientOutcome.err THEN "client" ELSE "nil",
     called |-> TRUE]

\* Stats from the second check of ctx.Err() on: done tells what that check
\* finds, clientOutcome what p.client.Stats returns if it is called
StatsLocked(done, clientOutcome) ==
    IF done THEN CtxFailure
    ELSE [outcome |-> [stats |-> clientOutcome.stats,
                       err |-> clientOutcome.err],
          err |-> IF clientOutcome.err THEN "client" ELSE "nil",
          called |-> TRUE]

\* p.client.Stats on a nil p.client: the call of a method of a nil interface
\* value panics; no value is returned
NilClientPanic ==
    [outcome |-> [stats |-> EmptyMap, err |-> TRUE], err |-> "panic",
     called |-> FALSE]

\* Stats from the second check on, for the p.client it finds
StatsOnClient(done, isNil, clientOutcome) ==
    IF ~done /\ isNil THEN NilClientPanic
    ELSE StatsLocked(done, clientOutcome)

\* the next port of g's walk needs a call of Stats
StatsWanted(g) ==
    /\ gpc[g] = "ports"
    /\ pos[g] < Len(Flatten(devices[g]))
    /\ netDevStatsProvider
    /\ Flatten(devices[g])[pos[g] + 1].port.Attributes.LinkLayer = "Ethernet"
    /\ Flatten(devices[g])[pos[g] + 1].port.Attributes.NetDev # ""
    /\ Flatten(devices[g])[pos[g] + 1].port.Attributes.NetDev
           \notin DOMAIN netDevStatsCache[g]

\* Stats up to p.mu.Lock(): the first check of ctx.Err(), then the lock
EthtoolStatsEnter(g) ==
    /\ StatsWanted(g)
    /\ statsFrame[g].pos # pos[g] + 1
    /\ IF CtxErr(callContext(ctx[g], ctxValue))
       THEN /\ statsFrame' = [statsFrame EXCEPT ![g] =
                   [pc |-> "returned", pos |-> pos[g] + 1,
                    outcome |-> CtxFailure.outcome, err |-> CtxFailure.err,
                    called |-> CtxFailure.called]]
            /\ providerMu' = providerMu
       ELSE /\ providerMu = 0
            /\ providerMu' = g
            /\ statsFrame' = [statsFrame EXCEPT ![g] =
                   [NoStatsCall EXCEPT !.pc = "locked", !.pos = pos[g] + 1]]
    /\ UNCHANGED <<mainVars, sysfsVars, netDevStatsProvider, registryVars, counterVars,
                   collectMu, ctxValue, handlerVars, gpc, frameVars,
                   historyVars, described, ethtoolClient>>

\* Stats from the lock on: the second check, the call of the client, and the
\* deferred p.mu.Unlock()
EthtoolStatsReturn(g, outcomes) ==
    /\ statsFrame[g].pc = "locked"
    /\ providerMu = g
    /\ \E clientOutcome \in outcomes :
          statsFrame' = [statsFrame EXCEPT ![g] =
              [pc |-> IF StatsOnClient(CtxErr(callContext(ctx[g], ctxValue)),
                                       ethtoolClient.isNil,
                                       clientOutcome).err = "panic"
                      THEN "panicked" ELSE "returned",
               pos |-> @.pos,
               outcome |-> StatsOnClient(CtxErr(callContext(ctx[g], ctxValue)),
                                         ethtoolClient.isNil,
                                         clientOutcome).outcome,
               err |-> StatsOnClient(CtxErr(callContext(ctx[g], ctxValue)),
                                     ethtoolClient.isNil,
                                     clientOutcome).err,
               called |-> StatsOnClient(CtxErr(callContext(ctx[g], ctxValue)),
                                        ethtoolClient.isNil,
                                        clientOutcome).called]]
    /\ providerMu' = 0
    /\ UNCHANGED <<mainVars, sysfsVars, netDevStatsProvider, registryVars, counterVars,
                   collectMu, ctxValue, handlerVars, gpc, frameVars,
                   historyVars, described, ethtoolClient>>

\* one iteration of the port loop with what Stats returned, if it was called
CollectPortEthtool(g) ==
    IF StatsWanted(g)
    THEN /\ statsFrame[g].pc = "returned"
         /\ statsFrame[g].pos = pos[g] + 1
         /\ CollectPort(g, {statsFrame[g].outcome})
    ELSE CollectPort(g, {StatsFailure})

\* a tree with one device whose two ports are Ethernet ports over two
\* interfaces
SysfsEthernet ==
    Sysfs("ok", {},
        <<DeviceEntry("mlx5_0", "dir", "ok",
            <<[PortEntry("1", TRUE, "ok", "ok")
                   EXCEPT !.attr = Attr("Ethernet", "ens1f0np0")],
              [PortEntry("2", TRUE, "ok", "ok")
                   EXCEPT !.attr = Attr("Ethernet", "ens2f0np0")]>>)>>)

InitCancel == InitWith(TRUE) /\ InitWalk(SysfsEthernet)

\* one request at a time, whose context may fire at any time: during the
\* walk of sysfs, and before, during and after a call of Stats
NextCancel ==
    \E r \in Requests :
        \/ HandleMetricsAlone(r)
        \/ CtxDone(r)
        \/ HandleSelect(r)
        \/ GatherSend(r)
        \/ CollectLock(r)
        \/ WalkCheck(r)
        \/ CollectSysfs(r)
        \/ EthtoolStatsEnter(r)
        \/ EthtoolStatsReturn(r, StatsOutcomes)
        \/ CollectPortEthtool(r)
        \/ CollectFinish(r)

SpecCancel == InitCancel /\ [][NextCancel]_vars

(***************************************************************************)
(* main from the signal on, and EthtoolStatsProvider.Close                 *)
(***************************************************************************)
\* the calls of p.Close the model follows: the one of main and one more
MaxCloseCalls == 2

\* Close as it is written: a nil p.client is left alone
ProviderCloseResult(c) ==
    IF c.isNil THEN [c EXCEPT !.closeCalls = @ + 1]
    ELSE [c EXCEPT !.closeCalls = @ + 1, !.clientCloses = @ + 1,
                   !.isNil = TRUE]

\* main receives the signal: srv.Shutdown closes the listeners, no request
\* is accepted from here on
Shutdown ==
    /\ ~ethtoolClient.shutdown
    /\ ethtoolClient' = [ethtoolClient EXCEPT !.shutdown = TRUE]
    /\ UNCHANGED <<mainVars, providerMu, statsFrame, sysfsVars, netDevStatsProvider,
                   registryVars, counterVars, collectMu, ctxValue,
                   handlerVars, gpc, frameVars, historyVars, described>>

\* srv.Shutdown has returned nil, every handler having returned, and p.Close
\* runs under p.mu
ProviderClose ==
    /\ ethtoolClient.shutdown
    /\ \A r \in Requests : hpc[r] \in {"idle", "done"}
    /\ netDevStatsProvider
    /\ ethtoolClient.closeCalls < MaxCloseCalls
    /\ providerMu = 0
    /\ ethtoolClient' = ProviderCloseResult(ethtoolClient)
    /\ UNCHANGED <<mainVars, providerMu, statsFrame, sysfsVars, netDevStatsProvider,
                   registryVars, counterVars, collectMu, ctxValue,
                   handlerVars, gpc, frameVars, historyVars, described>>

\* the requests of SpecCancel in a process that a signal may reach at any
\* time
NextClose ==
    \/ Shutdown
    \/ ProviderClose
    \/ \E r \in Requests :
        \/ HandleMetricsAlone(r) /\ ~ethtoolClient.shutdown
        \/ CtxDone(r)
        \/ HandleSelect(r)
        \/ GatherSend(r)
        \/ CollectLock(r)
        \/ WalkCheck(r)
        \/ CollectSysfs(r)
        \/ EthtoolStatsEnter(r)
        \/ EthtoolStatsReturn(r, StatsOutcomes)
        \/ CollectPortEthtool(r)
        \/ CollectFinish(r)

SpecClose == InitCancel /\ [][NextClose]_vars

\* one request at a time, whose context may fire at any time
NextTimed ==
    \E r \in Requests :
        \/ HandleMetricsAlone(r)
        \/ CtxDone(r)
        \/ HandleSelect(r)
        \/ GatherSend(r)
        \/ CollectLock(r)
        \/ CollectDevicesCtx(r, Snapshots)
        \/ CollectPort(r, StatsOutcomes)
        \/ CollectFinish(r)

SpecTimed == InitScrape /\ [][NextTimed]_vars

(***************************************************************************)
(* Vocabulary of the properties                                            *)
(***************************************************************************)
\* goroutine g is inside the collecting section: it holds collectMu and has
\* not reached the deferred Unlock
InCollect(g) == gpc[g] \in {"devices", "ports"}

IsPortInfo(m) == m.desc = portInfoDesc

IsPFC(m) ==
    m.desc \in {rocePFCPauseFramesDesc, rocePFCPauseDurationDesc,
                rocePFCPauseTransitionsDesc}

\* a sample of a primary or secondary counter
IsStat(m) == Len(m.labelValues) = 2

OfPort(m, deviceName, portID) ==
    /\ Len(m.labelValues) >= 2
    /\ m.labelValues[1] = deviceName
    /\ m.labelValues[2] = portID

\* the i-th port of g's snapshot has sent its port-info sample and one sample
\* per primary and per secondary counter
PortOutput(g, i) ==
    LET item == Flatten(devices[g])[i]
        portID == Itoa(item.port.ID)
        mine == {k \in 1..Len(ch[g]) :
                     OfPort(ch[g][k], item.deviceName, portID)}
    IN  /\ Cardinality({k \in mine : IsPortInfo(ch[g][k])}) = 1
        /\ Cardinality({k \in mine : IsStat(ch[g][k])}) =
               Cardinality(DOMAIN item.port.Stats)
               + Cardinality(DOMAIN item.port.HwStats)

\* the interfaces whose fetch failed in g's scrape
FailedNetDevs(g) ==
    {nd \in DOMAIN netDevStatsCache[g] : netDevStatsCache[g][nd].err}

(***************************************************************************)
(* C1: at most one Collect is inside the collecting section at any time;   *)
(* whoever is inside holds the collection lock, and a Collect that finds   *)
(* the lock held stays at the lock (it is neither rejected nor let in)     *)
(* until the holder has returned.                                          *)
(***************************************************************************)
C1_OneCollector ==
    /\ [](\A g1, g2 \in Requests :
             InCollect(g1) /\ InCollect(g2) => g1 = g2)
    /\ [](\A g \in Requests : InCollect(g) => collectMu = g)
    /\ [][\A g \in Requests :
             gpc[g] = "gather" /\ collectMu # 0 => gpc'[g] = "gather"]_vars

C1_Witness ==
    \E g1, g2 \in Requests :
        /\ InCollect(g1)
        /\ gpc[g2] = "gather"
        /\ ch[g1] # <<>>

(***************************************************************************)
(* C2: a scrape whose enumerator fails sends exactly one sample, the       *)
(* scrape-error counter with its value at entry plus one, and no port      *)
(* sample; a scrape whose enumerator succeeds, also after a failed one,    *)
(* sends the samples of every port and leaves the counter alone.           *)
(***************************************************************************)
C2_EnumeratorError ==
    \A g \in Requests :
        gpc[g] = "send" =>
            IF enumErr[g]
            THEN /\ scrapeErrors = atEntry[g][1] + 1
                 /\ ch[g] = <<CounterCollect(scrapeErrorsDesc, scrapeErrors)>>
            ELSE /\ scrapeErrors = atEntry[g][1]
                 /\ \A i \in 1..Len(Flatten(devices[g])) : PortOutput(g, i)

C2_Witness ==
    \E g \in Requests :
        /\ gpc[g] = "send"
        /\ ~enumErr[g]
        /\ atEntry[g][1] >= 1
        /\ devices[g] = SnapBasic

(***************************************************************************)
(* C3: in each family, two raw names with the same documented name have    *)
(* the same identifier, and the identifier of a raw name never changes     *)
(* once it has been resolved.                                              *)
(***************************************************************************)
SameDocSameIdentifier(lookup) ==
    \A r1, r2 \in DOMAIN lookup :
        canonicalDocName(r1) = canonicalDocName(r2) => lookup[r1] = lookup[r2]

IdentifierKept(lookup, lookupNext) ==
    \A r \in DOMAIN lookup :
        r \in DOMAIN lookupNext /\ lookupNext[r] = lookup[r]

C3_IdentifierStable ==
    /\ [](SameDocSameIdentifier(portStatLookup)
          /\ SameDocSameIdentifier(portHwStatLookup))
    /\ [][IdentifierKept(portStatLookup, portStatLookup')
          /\ IdentifierKept(portHwStatLookup, portHwStatLookup')]_vars

(***************************************************************************)
(* C4: in each family, two raw names with different documented names never *)
(* have the same identifier, and a registry entry, once made, keeps its    *)
(* documented name and descriptor.                                         *)
(***************************************************************************)
DifferentDocDifferentIdentifier(lookup) ==
    \A r1, r2 \in DOMAIN lookup :
        canonicalDocName(r1) # canonicalDocName(r2) => lookup[r1] # lookup[r2]

EntryKept(entries, entriesNext) ==
    \A n \in DOMAIN entries :
        /\ n \in DOMAIN entriesNext
        /\ entriesNext[n].docName = entries[n].docName
        /\ entriesNext[n].desc = entries[n].desc

C4_CollisionSafe ==
    /\ [](DifferentDocDifferentIdentifier(portStatLookup)
          /\ DifferentDocDifferentIdentifier(portHwStatLookup))
    /\ [][EntryKept(portStatMetrics, portStatMetrics')
          /\ EntryKept(portHwMetrics, portHwMetrics')]_vars

(***************************************************************************)
(* C5: within one scrape the stats source is called at most once for each  *)
(* interface name, whatever the number of ports that name it and whether   *)
(* the first fetch succeeded or failed.                                    *)
(***************************************************************************)
C5_OneFetchPerNetDev ==
    \A g \in Requests :
        \A nd \in DOMAIN statsCalls[g] : statsCalls[g][nd] <= 1

\* two ports of different devices on one interface whose fetch failed
C5_Witness ==
    \E g \in Requests :
        /\ devices[g] = SnapShared
        /\ pos[g] >= 2
        /\ "ens1f0np0" \in FailedNetDevs(g)
        /\ statsCalls[g]["ens1f0np0"] = 1

(***************************************************************************)
(* C6: in a scrape whose enumerator succeeded, the PFC scrape-error        *)
(* counter has grown by the number of distinct interfaces whose fetch      *)
(* failed, the scrape-error counter has not changed, no PFC sample names a *)
(* failed interface, and every port walked so far has sent its port-info   *)
(* sample and its primary and secondary counter samples.                   *)
(***************************************************************************)
C6_PFCFailureLocal ==
    \A g \in Requests :
        gpc[g] \in {"ports", "send"} /\ ~enumErr[g] =>
            /\ rocePFCScrapeErrors =
                   atEntry[g][2] + Cardinality(FailedNetDevs(g))
            /\ scrapeErrors = atEntry[g][1]
            /\ \A k \in 1..Len(ch[g]) :
                   IsPFC(ch[g][k]) =>
                       ch[g][k].labelValues[3] \notin FailedNetDevs(g)
            /\ \A i \in 1..pos[g] : PortOutput(g, i)

\* three ports, two of them on the interface that failed, one on an
\* interface that delivered PFC samples
C6_Witness ==
    \E g \in Requests :
        /\ gpc[g] = "send"
        /\ devices[g] = SnapShared
        /\ FailedNetDevs(g) = {"ens1f0np0"}
        /\ \E k \in 1..Len(ch[g]) :
               IsPFC(ch[g][k]) /\ ch[g][k].labelValues[3] = "ens2f0np0"

(***************************************************************************)
(* C7: the collection run for a request uses that request's own context.   *)
(***************************************************************************)
C7_OwnContext ==
    \A g \in Requests : InCollect(g) => ctx[g] = g

PFCAttempted(attr) ==
    /\ netDevStatsProvider
    /\ attr.LinkLayer = "Ethernet"
    /\ attr.NetDev # ""

C9_PFCPreconditions ==
    [][\A g \in Requests :
          pos'[g] = pos[g] + 1 =>
              LET attr == Flatten(devices[g])[pos'[g]].port.Attributes
                  sent == SubSeq(ch'[g], Len(ch[g]) + 1, Len(ch'[g]))
              IN  ~PFCAttempted(attr) =>
                      /\ statsCalls'[g] = statsCalls[g]
                      /\ \A k \in 1..Len(sent) : ~IsPFC(sent[k])
                      /\ scrapeErrors' = scrapeErrors
                      /\ rocePFCScrapeErrors' = rocePFCScrapeErrors]_vars

\* with a stats source configured, the three ports that each miss one
\* precondition have been walked without a call
C9_Witness ==
    \E g \in Requests :
        /\ netDevStatsProvider
        /\ devices[g] = SnapSkip
        /\ pos[g] = Len(Flatten(SnapSkip))
        /\ statsCalls[g] = EmptyMap

(***************************************************************************)
(* C10: neither error counter ever decreases, whatever the interleaving of *)
(* scrapes, aborted scrapes, timed-out requests and calls of Describe.     *)
(***************************************************************************)
C10_CountersMonotonic ==
    [][/\ scrapeErrors' >= scrapeErrors
       /\ rocePFCScrapeErrors' >= rocePFCScrapeErrors]_vars

C10_Witness ==
    /\ scrapeErrors >= 1
    /\ rocePFCScrapeErrors >= 1
    /\ described # {}
    /\ \E r \in Requests : response[r].status = 504

(***************************************************************************)
(* C11: an allocated identifier is immutable: an identifier recorded for a *)
(* documented name is never removed from the registry and never becomes    *)
(* the identifier of another documented name, and the identifier cached    *)
(* for a raw name never changes.                                           *)
(***************************************************************************)
DocNameKept(entries, entriesNext) ==
    \A n \in DOMAIN entries :
        n \in DOMAIN entriesNext /\ entriesNext[n].docName = entries[n].docName

C11_IdentifierImmutable ==
    [][/\ DocNameKept(portStatMetrics, portStatMetrics')
       /\ DocNameKept(portHwMetrics, portHwMetrics')
       /\ \A r \in DOMAIN portStatLookup :
              r \in DOMAIN portStatLookup'
              /\ portStatLookup'[r] = portStatLookup[r]
       /\ \A r \in DOMAIN portHwStatLookup :
              r \in DOMAIN portHwStatLookup'
              /\ portHwStatLookup'[r] = portHwStatLookup[r]]_vars

(***************************************************************************)
(* C12: the collection lock is released on every exit path of Collect: the *)
(* step by which a Collect returns, after an enumerator error or after the *)
(* last device, frees the lock, and a goroutine that is not inside Collect *)
(* never holds it.                                                         *)
(***************************************************************************)
C12_LockReleased ==
    /\ [][\A g \in Requests :
             InCollect(g) /\ ~InCollect(g)' => collectMu' = 0]_vars
    /\ [](\A g \in Requests : ~InCollect(g) => collectMu # g)

C12_Witness ==
    \E g1, g2 \in Requests :
        /\ gpc[g1] = "send" /\ enumErr[g1]
        /\ gpc[g2] = "send" /\ ~enumErr[g2]
        /\ collectMu = 0

(***************************************************************************)
(* C13: while a Collect whose request has been cancelled is still inside   *)
(* its enumerator or stats calls, it keeps the collection lock: the        *)
(* handler's timeout reply leaves the lock with it, and no later Collect   *)
(* gets past the lock before it has returned.                              *)
(***************************************************************************)
C13_LockHeldThroughTimeout ==
    /\ [](\A g \in Requests : InCollect(g) /\ ctxDone[g] => collectMu = g)
    /\ [][\A g \in Requests :
             InCollect(g) /\ hpc[g] = "select" /\ hpc'[g] = "done"
                 => /\ response'[g].status = 504
                    /\ InCollect(g)'
                    /\ collectMu' = g]_vars
    /\ [][\A g, later \in Requests :
             InCollect(g) /\ hpc[g] = "done" /\ gpc[later] = "gather"
                 => gpc'[later] = "gather"]_vars

C13_Witness ==
    \E g, later \in Requests :
        /\ InCollect(g)
        /\ response[g].status = 504
        /\ gpc[later] = "gather"
        /\ ctxDone[later]

(***************************************************************************)
(* C14: Collect reads the stored context once, when it starts: the context *)
(* it holds is the one stored at that moment, a SetContext or ResetContext *)
(* executed while it runs changes neither that context nor the context it  *)
(* passes to the enumerator and to the stats source, and is seen only by a *)
(* Collect that starts later.                                              *)
(***************************************************************************)
C14_ContextReadOnce ==
    /\ [][\A g \in Requests :
             /\ gpc[g] = "gather" /\ InCollect(g)' => ctx'[g] = ctxValue
             /\ InCollect(g) => ctx'[g] = ctx[g]]_vars
    /\ [](\A g \in Requests : passedCtx[g] \subseteq {ctx[g]})

C14_Witness ==
    \E g \in Requests :
        /\ gpc[g] = "ports"
        /\ statsCalls[g] # EmptyMap
        /\ ctx[g] # ctxValue
        /\ passedCtx[g] = {ctx[g]}
        /\ ctx[g] # Background

(***************************************************************************)
(* C15: the registries and the raw-name caches change only in a step of a  *)
(* Collect that holds the collection lock, and Describe copies them only   *)
(* when it has the lock, so never while a Collect is between Lock and      *)
(* Unlock.                                                                 *)
(***************************************************************************)
C15_RegistryUnderLock ==
    [][/\ registryVars' # registryVars
           => \E g \in Requests :
                 InCollect(g) /\ collectMu = g /\ collectMu' = g
       /\ described' # described
           => collectMu = 0 /\ \A g \in Requests : ~InCollect(g)]_vars

C15_Witness ==
    \E g \in Requests :
        /\ InCollect(g)
        /\ pos[g] >= 1
        /\ portStatMetrics # EmptyMap
        /\ described = FixedDescs

(***************************************************************************)
(* C16: a Describe that runs after a collection has completed sends the    *)
(* six fixed descriptors and, for every primary or secondary counter       *)
(* sample that a completed collection has sent, the descriptor that sample *)
(* was sent under.                                                         *)
(***************************************************************************)
\* the samples of the collections that have returned, wherever they are now:
\* still with the goroutine, in the result channel, or in a response
CompletedSamples ==
    UNION {{ch[g][k] : k \in 1..Len(ch[g])} :
              g \in {q \in Requests : gpc[q] = "send"}}
    \cup UNION {{resultCh[g][1].metrics[k] :
                     k \in 1..Len(resultCh[g][1].metrics)} :
                   g \in {q \in Requests : resultCh[q] # <<>>}}
    \cup UNION {{response[g].body[k] : k \in 1..Len(response[g].body)} :
                   g \in Requests}

C16_DescribeReportsRegistry ==
    [][described' # described =>
          /\ FixedDescs \subseteq described'
          /\ Cardinality(FixedDescs) = 6
          /\ \A m \in CompletedSamples :
                 IsStat(m) => m.desc \in described']_vars

C16_Witness ==
    /\ Cardinality(described) >= 9
    /\ \E m \in CompletedSamples : IsStat(m) /\ m.desc \in described
    /\ \E g \in Requests : response[g].status = 200 /\ gpc[g] = "exit"

(***************************************************************************)
(* C19: whenever the scrape deadline is exceeded, the exporter aborts the  *)
(* response and increments an error counter: a request answered with the   *)
(* timeout status has an empty body, and its collection, once it has       *)
(* returned, has incremented one of the two error counters.                *)
(***************************************************************************)
C19_DeadlineCounted ==
    \A r \in Requests :
        response[r].status = 504 =>
            /\ response[r].body = <<>>
            /\ gpc[r] = "send" =>
                   \/ scrapeErrors > atEntry[r][1]
                   \/ rocePFCScrapeErrors > atEntry[r][2]

EligibleDevice(sys, e) ==
    e.kind \in {"dir", "symlinkDir"} /\ e.name \notin sys.exclude

\* an entry of a ports directory that Devices reads as a port
ReadablePort(p) == p.isDir /\ \E k \in 0..99 : Itoa(k) = p.name

PortFails(p) ==
    ReadablePort(p) /\ (p.counters # "ok" \/ p.hwCounters = "error")

DeviceFails(sys, e) ==
    /\ EligibleDevice(sys, e)
    /\ \/ e.portsDir = "error"
       \/ /\ e.portsDir = "ok"
          /\ \E j \in 1..Len(e.ports) : PortFails(e.ports[j])

TreeFails(sys) ==
    \/ sys.classDir = "error"
    \/ /\ sys.classDir = "ok"
       /\ \E i \in 1..Len(sys.entries) : DeviceFails(sys, sys.entries[i])

\* the port a readable entry stands for
PortOfEntry(p) ==
    MkPort(CHOOSE k \in 0..99 : Itoa(k) = p.name, p.stats,
           IF p.hwCounters = "ok" THEN p.hwStats ELSE EmptyMap, p.attr)

PortsOfEntries(ports) ==
    IF ports = <<>> THEN <<>>
    ELSE [j \in 1..Len(ports) |-> PortOfEntry(ports[j])]

DeviceOfEntry(e) ==
    MkDevice(e.name,
        IF e.portsDir = "ok"
        THEN PortsOfEntries(SelectSeq(e.ports, ReadablePort))
        ELSE <<>>)

DevicesOfEntries(entries) ==
    IF entries = <<>> THEN <<>>
    ELSE [i \in 1..Len(entries) |-> DeviceOfEntry(entries[i])]

\* every device of the tree with every port
CompleteList(sys) ==
    IF sys.classDir # "ok" THEN <<>>
    ELSE DevicesOfEntries(
             SelectSeq(sys.entries, LAMBDA e : EligibleDevice(sys, e)))

C18_PartialFailureIsolated ==
    \A g \in Requests :
        walker = g /\ gpc[g] = "send" /\ cancelAt = 0
        /\ sysfs.classDir = "ok" =>
            \A i \in 1..Len(sysfs.entries) :
                /\ EligibleDevice(sysfs, sysfs.entries[i])
                /\ sysfs.entries[i].portsDir = "ok"
                => \A j \in 1..Len(sysfs.entries[i].ports) :
                      /\ ReadablePort(sysfs.entries[i].ports[j])
                      /\ ~PortFails(sysfs.entries[i].ports[j])
                      => \E k \in 1..Len(ch[g]) :
                            /\ IsPortInfo(ch[g][k])
                            /\ OfPort(ch[g][k], sysfs.entries[i].name,
                                      sysfs.entries[i].ports[j].name)

(***************************************************************************)
(* C21: a metrics response is never partial content: the body the handler  *)
(* has written holds every gathered metric family or none, also when the   *)
(* encoding of a family failed.                                            *)
(***************************************************************************)
C21_NeverPartial ==
    [][\A r \in Requests :
          hpc[r] = "select" /\ hpc'[r] = "done" =>
              \/ response'[r].body = <<>>
              \/ /\ resultCh[r] # <<>>
                 /\ response'[r].body = resultCh[r][1].metrics]_vars

(***************************************************************************)
(* C22: in a scrape whose enumerator succeeded, every port has sent one    *)
(* sample for each of its primary counters and one for each of its         *)
(* secondary counters, and no other counter sample: the sample has the     *)
(* port's device name and port id as labels, the counter's value, and the  *)
(* descriptor that the registry of its family holds for its raw name.      *)
(***************************************************************************)
\* the samples of ch[g] with the given descriptor, value and port
StatSamples(g, desc, value, deviceName, portID) ==
    {k \in 1..Len(ch[g]) :
        /\ ch[g][k].desc = desc
        /\ ch[g][k].value = value
        /\ ch[g][k].valueType = "counter"
        /\ ch[g][k].labelValues = <<deviceName, portID>>}

\* the counter samples of ch[g] of one port
PortStatSamples(g, deviceName, portID) ==
    {k \in 1..Len(ch[g]) :
        IsStat(ch[g][k]) /\ OfPort(ch[g][k], deviceName, portID)}

C22_OneSamplePerCounter ==
    \A g \in Requests :
        gpc[g] = "send" /\ ~enumErr[g] =>
            \A i \in 1..Len(Flatten(devices[g])) :
                /\ \A stat \in DOMAIN Flatten(devices[g])[i].port.Stats :
                      /\ stat \in DOMAIN portStatLookup
                      /\ portStatLookup[stat] \in DOMAIN portStatMetrics
                      /\ StatSamples(g,
                             portStatMetrics[portStatLookup[stat]].desc,
                             Flatten(devices[g])[i].port.Stats[stat],
                             Flatten(devices[g])[i].deviceName,
                             Itoa(Flatten(devices[g])[i].port.ID)) # {}
                /\ \A stat \in DOMAIN Flatten(devices[g])[i].port.HwStats :
                      /\ stat \in DOMAIN portHwStatLookup
                      /\ portHwStatLookup[stat] \in DOMAIN portHwMetrics
                      /\ StatSamples(g,
                             portHwMetrics[portHwStatLookup[stat]].desc,
                             Flatten(devices[g])[i].port.HwStats[stat],
                             Flatten(devices[g])[i].deviceName,
                             Itoa(Flatten(devices[g])[i].port.ID)) # {}
                /\ Cardinality(PortStatSamples(g,
                       Flatten(devices[g])[i].deviceName,
                       Itoa(Flatten(devices[g])[i].port.ID)))
                   = Cardinality(DOMAIN Flatten(devices[g])[i].port.Stats)
                     + Cardinality(DOMAIN Flatten(devices[g])[i].port.HwStats)

\* a snapshot with primary and secondary counters on two ports
C22_Witness ==
    \E g \in Requests :
        /\ gpc[g] = "send"
        /\ ~enumErr[g]
        /\ devices[g] = SnapAlias
        /\ Cardinality(PortStatSamples(g, "mlx5_0", "1")) = 2
        /\ Cardinality(PortStatSamples(g, "mlx5_0", "2")) = 2

(***************************************************************************)
(* C23: in a scrape whose enumerator succeeded, every port walked has sent *)
(* exactly one port-metadata sample: a gauge of value 1 labelled with the  *)
(* device, the port, link layer, state, physical state, width and speed,   *)
(* also when the port has no counters and when its PFC fetch failed or was *)
(* skipped; the scrape sends no other port-metadata sample.                *)
(***************************************************************************)
C23_OnePortInfo ==
    \A g \in Requests :
        gpc[g] \in {"ports", "send"} /\ ~enumErr[g] =>
            /\ \A i \in 1..pos[g] :
                  Cardinality({k \in 1..Len(ch[g]) :
                      /\ ch[g][k].desc = portInfoDesc
                      /\ ch[g][k].valueType = "gauge"
                      /\ ch[g][k].value = 1
                      /\ ch[g][k].labelValues =
                           <<Flatten(devices[g])[i].deviceName,
                             Itoa(Flatten(devices[g])[i].port.ID),
                             Flatten(devices[g])[i].port.Attributes.LinkLayer,
                             Flatten(devices[g])[i].port.Attributes.State,
                             Flatten(devices[g])[i].port.Attributes.PhysState,
                             Flatten(devices[g])[i].port.Attributes.LinkWidth,
                             Flatten(devices[g])[i].port.Attributes.LinkSpeed>>})
                  = 1
            /\ Cardinality({k \in 1..Len(ch[g]) : IsPortInfo(ch[g][k])})
                   = pos[g]

\* three ports, two of them without counters, two on the interface whose
\* fetch failed
C23_Witness ==
    \E g \in Requests :
        /\ gpc[g] = "send"
        /\ devices[g] = SnapShared
        /\ "ens1f0np0" \in FailedNetDevs(g)
        /\ Cardinality({k \in 1..Len(ch[g]) : IsPortInfo(ch[g][k])}) = 3

\* the PFC samples of ch[g] of one port
PortPFCSamples(g, deviceName, portID) ==
    {k \in 1..Len(ch[g]) :
        IsPFC(ch[g][k]) /\ OfPort(ch[g][k], deviceName, portID)}

\* the stats fetched for the interface of the i-th port of g's snapshot
FetchedStats(g, i) ==
    netDevStatsCache[g][Flatten(devices[g])[i].port.Attributes.NetDev].stats

\* the PFC fetch for the i-th port of g's snapshot was made and succeeded
PFCFetched(g, i) ==
    /\ PFCAttempted(Flatten(devices[g])[i].port.Attributes)
    /\ Flatten(devices[g])[i].port.Attributes.NetDev
           \in DOMAIN netDevStatsCache[g]
    /\ ~netDevStatsCache[g][
            Flatten(devices[g])[i].port.Attributes.NetDev].err

(***************************************************************************)
(* C24: for a port whose stats fetch succeeded, every fetched name that is *)
(* the name of a PFC counter has exactly one sample, under the family of   *)
(* its kind, with the stat's value and the labels device, port, interface, *)
(* direction and priority; the names that are not PFC names have no sample *)
(* and change neither error counter.                                       *)
(***************************************************************************)
C24_PFCSamples ==
    \A g \in Requests :
        gpc[g] \in {"ports", "send"} /\ ~enumErr[g] =>
            /\ \A i \in 1..pos[g] :
                  PFCFetched(g, i) =>
                     /\ \A direction \in {"rx", "tx"} :
                        \A priority \in PriorityDigits :
                        \A kind \in PFCKinds :
                           PFCName(direction, priority, kind)
                               \in DOMAIN FetchedStats(g, i) =>
                             Cardinality({k \in 1..Len(ch[g]) :
                                ch[g][k] = MustNewConstMetric(PFCFamily(kind),
                                    "counter",
                                    FetchedStats(g, i)[
                                        PFCName(direction, priority, kind)],
                                    <<Flatten(devices[g])[i].deviceName,
                                      Itoa(Flatten(devices[g])[i].port.ID),
                                      Flatten(devices[g])[i].port.Attributes.NetDev,
                                      direction, priority>>)}) = 1
                     /\ Cardinality(PortPFCSamples(g,
                            Flatten(devices[g])[i].deviceName,
                            Itoa(Flatten(devices[g])[i].port.ID)))
                        = Cardinality(DOMAIN FetchedStats(g, i) \cap PFCNames)
            /\ FailedNetDevs(g) = {} =>
                  /\ scrapeErrors = atEntry[g][1]
                  /\ rocePFCScrapeErrors = atEntry[g][2]

\* three Ethernet ports on two interfaces, every fetch succeeded: each port
\* has the four samples of the four PFC names among the six fetched
C24_Witness ==
    \E g \in Requests :
        /\ gpc[g] = "send"
        /\ devices[g] = SnapShared
        /\ DOMAIN netDevStatsCache[g] = {"ens1f0np0", "ens2f0np0"}
        /\ FailedNetDevs(g) = {}
        /\ \A i \in 1..3 : FetchedStats(g, i) = StatsPFC.stats
        /\ Cardinality({k \in 1..Len(ch[g]) : IsPFC(ch[g][k])}) = 12

\* the names fetched in the scrape of g
FetchedNames(g) ==
    UNION {DOMAIN netDevStatsCache[g][netDev].stats :
              netDev \in DOMAIN netDevStatsCache[g]}

\* the PFC samples sent in the scrape of g
PFCSent(g) == {ch[g][k] : k \in {k \in 1..Len(ch[g]) : IsPFC(ch[g][k])}}

(***************************************************************************)
(* C25: the extractor matches a name exactly when the whole name is rx or  *)
(* tx, _prio, one digit 0 to 7, _pause and optionally _duration or         *)
(* _transition; it then returns that direction, that digit and the kind of *)
(* the suffix, and the sample sent carries them.  Every other name is not  *)
(* matched and has no sample.                                              *)
(***************************************************************************)
C25_PatternExact ==
    \A g \in Requests :
        gpc[g] \in {"ports", "send"} /\ ~enumErr[g] =>
            \A name \in FetchedNames(g) :
                /\ parseRoCEPFCMetricName(name).ok <=> name \in PFCNames
                /\ name \in PFCNames =>
                      /\ name = PFCName(parseRoCEPFCMetricName(name).direction,
                                        parseRoCEPFCMetricName(name).priority,
                                        parseRoCEPFCMetricName(name).kind)
                      /\ parseRoCEPFCMetricName(name).direction
                             \in {"rx", "tx"}
                      /\ parseRoCEPFCMetricName(name).priority
                             \in PriorityDigits
                      /\ parseRoCEPFCMetricName(name).kind \in PFCKinds
                      /\ \E m \in PFCSent(g) :
                            /\ m.desc = PFCFamily(
                                   parseRoCEPFCMetricName(name).kind)
                            /\ m.labelValues[4] = SubSeq(name, 1, 2)
                            /\ m.labelValues[5] = CharAt(name, 8)
                /\ name \notin PFCNames =>
                      /\ parseRoCEPFCMetricName(name) = NoMatch
                      /\ FetchedNames(g) = {name} => PFCSent(g) = {}

\* a scrape that fetched a transitions counter of priority 7, after a scrape
\* that fetched a name with a priority out of range
C25_Witness ==
    /\ gpc[2] = "send"
    /\ FetchedNames(2) = {"tx_prio7_pause_transition"}
    /\ \E m \in PFCSent(2) :
          /\ m.desc = rocePFCPauseTransitionsDesc
          /\ m.labelValues[4] = "tx"
          /\ m.labelValues[5] = "7"
    /\ hpc[1] = "done"
    /\ ~\E k \in 1..Len(response[1].body) : IsPFC(response[1].body[k])
    /\ response[1].status = 200

(***************************************************************************)
(* C26: canonicalDocName is total and idempotent: every raw name the       *)
(* collector has canonicalized, the empty name and the names without any   *)
(* ASCII character among them, has a non-empty canonical name, which       *)
(* canonicalizes to itself.                                                *)
(***************************************************************************)
C26_CanonicalIdempotent ==
    /\ \A stat \in DOMAIN portStatLookup :
          /\ canonicalDocName(stat) # ""
          /\ canonicalDocName(canonicalDocName(stat)) = canonicalDocName(stat)
    /\ \A metricName \in DOMAIN portStatMetrics :
          /\ portStatMetrics[metricName].docName # ""
          /\ canonicalDocName(portStatMetrics[metricName].docName)
                 = portStatMetrics[metricName].docName

\* the empty name and a name without ASCII characters have been canonicalized
C26_Witness ==
    /\ {"", "日é"} \subseteq DOMAIN portStatLookup
    /\ canonicalDocName("") = "unknown"
    /\ canonicalDocName("日é") = "__"
    /\ \E metricName \in DOMAIN portStatMetrics :
          portStatMetrics[metricName].docName = "__"

\* s and t differ only in the case of ASCII letters
SameButCase(s, t) ==
    /\ Len(s) = Len(t)
    /\ \A i \in 1..Len(s) :
          \/ CharAt(s, i) = CharAt(t, i)
          \/ /\ IsUpper(CharAt(s, i))
             /\ ToLower(CharAt(s, i)) = CharAt(t, i)
          \/ /\ IsUpper(CharAt(t, i))
             /\ ToLower(CharAt(t, i)) = CharAt(s, i)

(***************************************************************************)
(* C27: a raw name that differs from a name of the known-counter table     *)
(* only in the case of ASCII letters canonicalizes to the documented name  *)
(* of that entry, and has the identifier the table spelling has.           *)
(***************************************************************************)
C27_CaseTolerant ==
    \A stat \in DOMAIN portStatLookup :
        \A key \in DOMAIN metricSpecs :
            SameButCase(stat, key) =>
                /\ canonicalDocName(stat) = metricSpecs[key].DocName
                /\ key \in DOMAIN portStatLookup =>
                      portStatLookup[stat] = portStatLookup[key]

\* the place of name n among the names S in ascending order
Rank(n, S) == Cardinality({m \in S : StrLess(m, n)}) + 1

\* the (identifier, labels, value) of a sample
Triple(m) == <<m.desc.fqName, m.labelValues, m.value>>

\* the samples of ports in a sequence of samples, as triples
PortTriples(samples) ==
    [k \in 1..Len(SelectSeq(samples, LAMBDA m : Len(m.labelValues) >= 2)) |->
        Triple(SelectSeq(samples, LAMBDA m : Len(m.labelValues) >= 2)[k])]

\* the samples the step sends for the port it handles
Sent(g) == SubSeq(ch'[g], Len(ch[g]) + 1, Len(ch'[g]))

\* the PFC names fetched for the port the step handles; none when the fetch
\* was not made or failed
SentPFCNames(g) ==
    IF /\ PFCAttempted(Flatten(devices[g])[pos'[g]].port.Attributes)
       /\ ~netDevStatsCache'[g][
              Flatten(devices[g])[pos'[g]].port.Attributes.NetDev].err
    THEN DOMAIN netDevStatsCache'[g][
             Flatten(devices[g])[pos'[g]].port.Attributes.NetDev].stats
         \cap PFCNames
    ELSE {}

\* the step of one port sends the primary counters, then the secondary ones,
\* then the PFC counters, each in ascending order of raw name, then port info
PortStepOrdered(g) ==
    LET item == Flatten(devices[g])[pos'[g]]
        nS == Cardinality(DOMAIN item.port.Stats)
        nH == Cardinality(DOMAIN item.port.HwStats)
        nd == item.port.Attributes.NetDev
    IN  /\ Len(Sent(g)) = nS + nH + Cardinality(SentPFCNames(g)) + 1
        /\ \A n \in DOMAIN item.port.Stats :
              Triple(Sent(g)[Rank(n, DOMAIN item.port.Stats)])
                  = <<portStatLookup'[n],
                      <<item.deviceName, Itoa(item.port.ID)>>,
                      item.port.Stats[n]>>
        /\ \A n \in DOMAIN item.port.HwStats :
              Triple(Sent(g)[nS + Rank(n, DOMAIN item.port.HwStats)])
                  = <<portHwStatLookup'[n],
                      <<item.deviceName, Itoa(item.port.ID)>>,
                      item.port.HwStats[n]>>
        /\ \A n \in SentPFCNames(g) :
              /\ IsPFC(Sent(g)[nS + nH + Rank(n, SentPFCNames(g))])
              /\ Sent(g)[nS + nH + Rank(n, SentPFCNames(g))].labelValues
                     = <<item.deviceName, Itoa(item.port.ID), nd,
                         SubSeq(n, 1, 2), CharAt(n, 8)>>
              /\ Sent(g)[nS + nH + Rank(n, SentPFCNames(g))].value
                     = netDevStatsCache'[g][nd].stats[n]
        /\ IsPortInfo(Sent(g)[Len(Sent(g))])

\* two scrapes of this process that walked the same snapshot and fetched the
\* same stats
SameInputs(g, h) ==
    /\ g # h
    /\ gpc[g] = "send" /\ gpc[h] = "send"
    /\ ~enumErr[g] /\ ~enumErr[h]
    /\ devices[g] = devices[h]
    /\ netDevStatsCache[g] = netDevStatsCache[h]

(***************************************************************************)
(* C28: the samples of a port's primary counters, of its secondary         *)
(* counters and of its PFC counters are each sent in ascending order of    *)
(* raw name, and two scrapes of one process over the same snapshot send    *)
(* the same sequence of (identifier, labels, value) samples.               *)
(***************************************************************************)
C28_DeterministicOrder ==
    /\ [][\A g \in Requests :
             pos'[g] = pos[g] + 1 => PortStepOrdered(g)]_vars
    /\ [](\A g, h \in Requests :
             SameInputs(g, h) =>
                 /\ PortTriples(ch[g]) = PortTriples(ch[h])
                 /\ (atEntry[g] = atEntry[h] /\ FailedNetDevs(g) = {}) =>
                        [k \in 1..Len(ch[g]) |-> Triple(ch[g][k])]
                        = [k \in 1..Len(ch[h]) |-> Triple(ch[h][k])])

\* two scrapes over the three Ethernet ports, with the PFC names fetched in
\* both
C28_Witness ==
    /\ SameInputs(1, 2)
    /\ devices[1] = SnapShared
    /\ FailedNetDevs(1) = {}
    /\ DOMAIN netDevStatsCache[1] = {"ens1f0np0", "ens2f0np0"}
    /\ Len(PortTriples(ch[1])) = 16
    /\ PortTriples(ch[2])[2]
           = <<"rdma_roce_pfc_pause_frames_total",
               <<"mlx5_0", "1", "ens1f0np0", "rx", "0">>, 10>>
    /\ PortTriples(ch[2])[3]
           = <<"rdma_roce_pfc_pause_duration_total",
               <<"mlx5_0", "1", "ens1f0np0", "rx", "4">>, 30>>

\* the i-th port of g's snapshot has had its interface fetched once in this
\* scrape, and has its PFC samples if that fetch succeeded
FetchedInScrape(g, i) ==
    /\ Flatten(devices[g])[i].port.Attributes.NetDev \in DOMAIN statsCalls[g]
    /\ statsCalls[g][Flatten(devices[g])[i].port.Attributes.NetDev] = 1
    /\ Flatten(devices[g])[i].port.Attributes.NetDev
           \in DOMAIN netDevStatsCache[g]
    /\ PFCFetched(g, i) =>
          Cardinality(PortPFCSamples(g, Flatten(devices[g])[i].deviceName,
                                     Itoa(Flatten(devices[g])[i].port.ID)))
          = Cardinality(DOMAIN FetchedStats(g, i) \cap PFCNames)

(***************************************************************************)
(* C29: the stats cache lives for one scrape: every scrape starts its walk *)
(* with an empty cache, so every interface of a port with PFC collection   *)
(* is fetched in every scrape, whatever an earlier scrape fetched or       *)
(* failed to fetch, and has its PFC samples when this scrape's fetch       *)
(* succeeds.                                                               *)
(***************************************************************************)
C29_CachePerScrape ==
    /\ [][\A g \in Requests :
             gpc[g] = "devices" /\ gpc'[g] = "ports" =>
                 netDevStatsCache'[g] = EmptyMap]_vars
    /\ [](\A g \in Requests :
             gpc[g] \in {"ports", "send"} /\ ~enumErr[g] =>
                 \A i \in 1..pos[g] :
                     PFCAttempted(Flatten(devices[g])[i].port.Attributes) =>
                         FetchedInScrape(g, i))

\* the fetch of ens1f0np0 failed in the first scrape and succeeded in the
\* second, which has the PFC samples of both ports of that interface
C29_Witness ==
    /\ gpc[1] = "send" /\ gpc[2] = "send"
    /\ devices[1] = SnapShared /\ devices[2] = SnapShared
    /\ "ens1f0np0" \in FailedNetDevs(1)
    /\ FailedNetDevs(2) = {}
    /\ statsCalls[2]["ens1f0np0"] = 1
    /\ Cardinality(PortPFCSamples(2, "mlx5_0", "1")) = 4
    /\ Cardinality(PortPFCSamples(2, "mlx5_1", "1")) = 4
    /\ PortPFCSamples(1, "mlx5_0", "1") = {}

(***************************************************************************)
(* C30: both collaborators respect cancellation.  Devices called with a    *)
(* context that is already done returns an error and no devices.  Stats    *)
(* called with a context that is already done, or whose context is done    *)
(* when Stats holds its lock, returns the context's error and no stats     *)
(* without calling the client, and leaves the lock free.                   *)
(***************************************************************************)
C30_CancellationRespected ==
    /\ [](\A g \in Requests :
             walker = g /\ cancelAt = 1 =>
                 /\ Devices(sysfs, cancelAt).err
                 /\ Devices(sysfs, cancelAt).value = <<>>
                 /\ gpc[g] \in {"ports", "send"} =>
                        enumErr[g] /\ devices[g] = <<>> /\ gpc[g] = "send")
    /\ [][\A g \in Requests :
             /\ statsFrame'[g] # statsFrame[g]
             /\ CtxErr(callContext(ctx[g], ctxValue))
             => /\ statsFrame'[g].pc = "returned"
                /\ statsFrame'[g].err = "ctx"
                /\ statsFrame'[g].outcome = [stats |-> EmptyMap, err |-> TRUE]
                /\ ~statsFrame'[g].called
                /\ providerMu' = 0]_vars
    /\ [](\A g \in Requests :
             statsFrame[g].pc = "returned" =>
                 (statsFrame[g].called <=> statsFrame[g].err # "ctx"))

\* a scrape whose context was found done by Stats when it was called for the
\* second port, then a scrape whose context was done when Devices was called
C30_Witness ==
    /\ hpc[1] = "done"
    /\ response[1].status = 504
    /\ statsFrame[1].pc = "returned"
    /\ statsFrame[1].pos = 2
    /\ statsFrame[1].err = "ctx"
    /\ ~statsFrame[1].called
    /\ providerMu = 0
    /\ walker = 2
    /\ cancelAt = 1
    /\ gpc[2] = "send"
    /\ enumErr[2]
    /\ devices[2] = <<>>

\* a character that is an ASCII letter, a digit or the underscore
ValidChar(c) == IsLower(c) \/ IsUpper(c) \/ IsDigit(c) \/ c = "_"

(***************************************************************************)
(* C39: sanitizing a raw name that is empty, or that has no ASCII letter,  *)
(* no digit and no underscore, gives the string unknown.                   *)
(***************************************************************************)
C39_InvalidIsUnknown ==
    \A stat \in DOMAIN portStatLookup :
        (\A i \in 1..Len(stat) : ~ValidChar(CharAt(stat, i))) =>
            /\ sanitizeStatName(stat) = "unknown"
            /\ portStatLookup[stat] = "rdma_unknown_total"

\* what sanitizing writes for the character at position i of stat, said
\* character by character
Sanitized(stat, i) ==
    IF IsUpper(CharAt(stat, i))
    THEN CharAt(LowerStr, IndexOf(CharAt(stat, i), UpperStr))
    ELSE IF IsLower(CharAt(stat, i)) \/ IsDigit(CharAt(stat, i))
            \/ CharAt(stat, i) = "_"
    THEN CharAt(stat, i)
    ELSE "_"

\* 1 when stat begins with a digit, which is prefixed with an underscore
Shift(stat) == IF IsDigit(CharAt(stat, 1)) THEN 1 ELSE 0

(***************************************************************************)
(* C40: for every raw name, sanitizeStatName gives a non-empty string of   *)
(* lower-case letters, digits and underscores that does not begin with a   *)
(* digit: letters in lower case, digits and underscores as they are, an    *)
(* underscore before a leading digit, one underscore for every other       *)
(* character; a sanitized string sanitizes to itself.                      *)
(***************************************************************************)
C40_SanitizeShape ==
    \A stat \in DOMAIN portStatLookup :
        LET out == sanitizeStatName(stat) IN
        /\ out # ""
        /\ \A i \in 1..Len(out) :
              IsLower(CharAt(out, i)) \/ IsDigit(CharAt(out, i))
                  \/ CharAt(out, i) = "_"
        /\ ~IsDigit(CharAt(out, 1))
        /\ stat # "" =>
              /\ Len(out) = Len(stat) + Shift(stat)
              /\ Shift(stat) = 1 => CharAt(out, 1) = "_"
              /\ \A i \in 1..Len(stat) :
                    CharAt(out, i + Shift(stat)) = Sanitized(stat, i)
        /\ sanitizeStatName(out) = out

\* names with a leading digit, with upper-case letters, with a character
\* outside ASCII and with a dot have been sanitized
C40_Witness ==
    /\ {"9lives", "é"} \subseteq DOMAIN portStatLookup
    /\ sanitizeStatName("9lives") = "_9lives"
    /\ portStatLookup["9lives"] = "rdma__9lives_total"
    /\ portStatLookup["é"] \in {"rdma___total", "rdma____total"}
    /\ sanitizeStatName("Port_Rcv_Data") = "port_rcv_data"
    /\ sanitizeStatName("port.rcv.data") = "port_rcv_data"

\* the tree with every excluded device made unreadable
ExcludedUnreadable(sys) ==
    [sys EXCEPT !.entries =
        [i \in 1..Len(sys.entries) |->
            IF sys.entries[i].name \in sys.exclude
            THEN [sys.entries[i] EXCEPT !.portsDir = "error"]
            ELSE sys.entries[i]]]

\* the names of the devices Devices returned to g
DeviceNames(g) == {devices[g][k].Name : k \in 1..Len(devices[g])}

(***************************************************************************)
(* C31: a device whose name is equal to an entry of the exclusion list is  *)
(* not in the enumerator's result and none of its files is read: what      *)
(* Devices returns does not depend on them.  A device whose name is not    *)
(* equal to an entry, an entry with spaces around the name or a part of    *)
(* the name included, is not excluded.                                     *)
(***************************************************************************)
C31_ExcludeExact ==
    \A g \in Requests :
        walker = g /\ gpc[g] \in {"ports", "send"} /\ cancelAt = 0 =>
            /\ Devices(sysfs, 0) = Devices(ExcludedUnreadable(sysfs), 0)
            /\ enumErr[g] <=> TreeFails(sysfs)
            /\ ~enumErr[g] =>
                  \A i \in 1..Len(sysfs.entries) :
                      /\ sysfs.entries[i].name \in sysfs.exclude =>
                            sysfs.entries[i].name \notin DeviceNames(g)
                      /\ (/\ sysfs.entries[i].name \notin sysfs.exclude
                          /\ sysfs.entries[i].kind \in {"dir", "symlinkDir"}) =>
                            sysfs.entries[i].name \in DeviceNames(g)

\* a scrape over the tree whose first device is excluded and cannot be read,
\* and whose second device is only resembled by entries of the list
C31_Witness ==
    \E g \in Requests :
        /\ walker = g
        /\ gpc[g] = "send"
        /\ ~enumErr[g]
        /\ sysfs.exclude = {"mlx5_0", " mlx5_1", "mlx5_1 ", "mlx5"}
        /\ sysfs.entries[1].portsDir = "error"
        /\ DeviceNames(g) = {"mlx5_1"}
        /\ \E k \in 1..Len(ch[g]) :
              IsPortInfo(ch[g][k]) /\ OfPort(ch[g][k], "mlx5_1", "1")

\* the tree has no RDMA device: no class directory, or an empty one
NoDevices(sys) ==
    sys.classDir = "notexist" \/ (sys.classDir = "ok" /\ sys.entries = <<>>)

(***************************************************************************)
(* C32: when the class directory is absent or empty, enumeration succeeds  *)
(* with an empty device list: the scrape sends the two error counters and  *)
(* no sample of a port, the scrape-error counter is not incremented, and   *)
(* every scrape, the later ones too, is answered with status 200 and both  *)
(* counters unless its deadline passed before the result was there or      *)
(* during the walk.                                                        *)
(***************************************************************************)
C32_NoDevicesIsSuccess ==
    NoDevices(sysfs) =>
        /\ ~Devices(sysfs, 0).err
        /\ Devices(sysfs, 0).value = <<>>
        /\ \A g \in Requests :
              walker = g /\ cancelAt = 0 /\ gpc[g] \in {"ports", "send"} =>
                  /\ ~enumErr[g]
                  /\ devices[g] = <<>>
                  /\ scrapeErrors = atEntry[g][1]
                  /\ rocePFCScrapeErrors = atEntry[g][2]
                  /\ gpc[g] = "send" =>
                        ch[g] = <<CounterCollect(scrapeErrorsDesc,
                                                 scrapeErrors),
                                  CounterCollect(rocePFCScrapeErrorsDesc,
                                                 rocePFCScrapeErrors)>>
        /\ \A r \in Requests :
              hpc[r] = "done" /\ walker = r /\ cancelAt = 0 =>
                  \/ response[r] = [status |-> 504, body |-> <<>>]
                  \/ /\ response[r].status = 200
                     /\ Len(response[r].body) = 2
                     /\ \A k \in 1..2 :
                           response[r].body[k].labelValues = <<>>

\* the second scrape over a missing class directory has walked it, after the
\* first one was answered
C32_Witness ==
    /\ sysfs.classDir = "notexist"
    /\ hpc[1] = "done"
    /\ response[1].status = 200
    /\ Len(response[1].body) = 2
    /\ walker = 2
    /\ cancelAt = 0
    /\ gpc[2] = "send"
    /\ scrapeErrors = 0
    /\ Len(ch[2]) = 2

(***************************************************************************)
(* C37: a scrape that is aborted because the enumerator failed changes     *)
(* nothing but the scrape-error counter: from the lock to the return of    *)
(* Collect both registries and both raw-name caches stay as they were, the *)
(* stats source is not called, and the PFC scrape-error counter keeps its  *)
(* value; the scrape-error counter is incremented once.                    *)
(***************************************************************************)
C37_AbortFrame ==
    /\ [][\A g \in Requests :
             \/ gpc[g] = "gather" /\ gpc'[g] = "devices"
             \/ gpc[g] = "devices" /\ gpc'[g] = "send"
             => /\ registryVars' = registryVars
                /\ rocePFCScrapeErrors' = rocePFCScrapeErrors
                /\ statsCalls'[g] = EmptyMap
                /\ netDevStatsCache'[g] = EmptyMap]_vars
    /\ [](\A g \in Requests :
             gpc[g] = "send" /\ enumErr[g] =>
                 /\ scrapeErrors = atEntry[g][1] + 1
                 /\ rocePFCScrapeErrors = atEntry[g][2]
                 /\ statsCalls[g] = EmptyMap
                 /\ pos[g] = 0
                 /\ ch[g] = <<CounterCollect(scrapeErrorsDesc, scrapeErrors)>>)

\* the second scrape was aborted after the first one had filled the registries
C37_Witness ==
    /\ gpc[2] = "send"
    /\ enumErr[2]
    /\ DOMAIN portStatLookup # {}
    /\ DOMAIN portHwStatLookup # {}
    /\ scrapeErrors = 1
    /\ rocePFCScrapeErrors = 0

(***************************************************************************)
(* C34: in a scrape whose enumerator succeeded, no two samples have the    *)
(* same identifier and the same label values, whatever the snapshot: also  *)
(* when a raw name is both a primary and a secondary counter of a port,    *)
(* and when two raw names of a port have one documented name.              *)
(***************************************************************************)
C34_NoDuplicateSeries ==
    \A g \in Requests :
        gpc[g] \in {"ports", "send"} /\ ~enumErr[g] =>
            \A j, k \in 1..Len(ch[g]) :
                j < k =>
                    \/ ch[g][j].desc.fqName # ch[g][k].desc.fqName
                    \/ ch[g][j].labelValues # ch[g][k].labelValues

(* C38: the ethtool stats provider never uses its client after Close: no    *)
(* call of Stats holds p.mu while Close runs, a call of Stats that passes    *)
(* the lock after Close returns an error value, without calling the client   *)
(* and without failing on the nil client, and the client is closed at most   *)
(* once however often Close is called.                                       *)
C38_NoUseAfterClose ==
    /\ [](/\ ethtoolClient.clientCloses <= 1
          /\ ethtoolClient.closeCalls >= 1 => ethtoolClient.isNil
          /\ \A g \in Requests :
                 statsFrame[g].pc = "locked" => providerMu = g)
    /\ [][/\ ethtoolClient' # ethtoolClient
             /\ ethtoolClient'.shutdown = ethtoolClient.shutdown
                => providerMu = 0 /\ providerMu' = 0
          /\ \A g \in Requests :
                 ethtoolClient.isNil /\ statsFrame[g].pc = "locked"
                     /\ statsFrame'[g].pc # "locked" =>
                         /\ statsFrame'[g].pc = "returned"
                         /\ statsFrame'[g].err \in {"ctx", "client"}
                         /\ ~statsFrame'[g].called]_vars

(* C35: the gather goroutine of a request never blocks forever on its send: *)
(* resultCh never holds more than the one result, and a goroutine whose      *)
(* gather has returned always goes on to its end, also when its handler has  *)
(* replied on the timeout and nobody receives.                               *)
C35_SendNeverBlocks ==
    /\ [](\A g \in Requests : Len(resultCh[g]) <= 1)
    /\ \A g \in Requests : (gpc[g] = "send") ~> (gpc[g] = "exit")

\* the handler has replied on the timeout, and the goroutine has sent its
\* result, which stays in the channel, and has ended
C35_Witness ==
    /\ hpc[1] = "done"
    /\ response[1].status = 504
    /\ gpc[1] = "exit"
    /\ Len(resultCh[1]) = 1

(* C36: every Collect that is invoked acquires collectMu, completes and     *)
(* releases it, whatever other calls of Collect and Describe run beside it,  *)
(* as long as the enumerator and the stats source return and the sink takes  *)
(* the samples.                                                              *)
C36_CollectCompletes ==
    /\ [](\A g \in Requests :
              gpc[g] \in {"none", "gather", "send", "exit"} => collectMu # g)
    /\ \A g \in Requests :
           (gpc[g] = "gather") ~> (gpc[g] \in {"send", "exit"})

\* two requests are served together and both calls of Collect have completed,
\* the second after the first
C36_Witness ==
    /\ hpc[1] = "select"
    /\ hpc[2] = "select"
    /\ gpc[1] = "exit"
    /\ gpc[2] = "send"
    /\ collectMu = 0

\* the settings that have a flag, a variable and a built-in default
Settings == FlagNames \ {"version"}

\* the variable of a setting is set, that is, not empty
EnvSet(f) == osInput.env[EnvKey(f)] # ""

\* no variable holds blanks around its text or blanks only
PlainEnv ==
    \A f \in Settings :
        osInput.env[EnvKey(f)] = TrimSpace(osInput.env[EnvKey(f)])

\* the text that decides a setting: the flag's, else the variable's
Winner(f) ==
    IF osInput.args[f].given THEN osInput.args[f].value
    ELSE osInput.env[EnvKey(f)]

\* the deciding text is one the setting accepts
WinnerValid(f) ==
    \/ ~osInput.args[f].given /\ ~EnvSet(f)
    \/ CASE f = "scrape-timeout" -> ParseDuration(Winner(f)).ok
              [] f = "log-level" -> parseLogLevel(Winner(f)).ok
              [] OTHER -> TRUE

\* the value the precedence rule gives a setting
Expected(f) ==
    CASE f = "scrape-timeout" ->
             IF osInput.args[f].given \/ EnvSet(f)
             THEN ParseDuration(Winner(f)).value ELSE defaultTimeout
      [] f = "log-level" ->
             IF osInput.args[f].given \/ EnvSet(f)
             THEN parseLogLevel(Winner(f)).level
             ELSE parseLogLevel(defaultLogLevel).level
      [] OTHER ->
             IF osInput.args[f].given \/ EnvSet(f)
             THEN Winner(f) ELSE BuiltIn(f)

\* the value Parse gave a setting
Configured(f) ==
    CASE f = "listen-address" -> config.ListenAddress
      [] f = "metrics-path" -> config.MetricsPath
      [] f = "health-path" -> config.HealthPath
      [] f = "log-level" -> config.LogLevel
      [] f = "sysfs-root" -> config.SysfsRoot
      [] f = "scrape-timeout" -> config.ScrapeTimeout

(* C33: for every setting a flag given on the command line decides, else    *)
(* the environment variable when it is not empty, else the built-in          *)
(* default: whenever the deciding text of every setting is one the setting   *)
(* accepts, Parse returns no error and each setting has the value that text  *)
(* stands for.  Variables that hold blanks are left aside.                   *)
C33_Precedence ==
    config # NotParsed /\ PlainEnv /\ (\A f \in Settings : WinnerValid(f)) =>
        /\ config.err = ""
        /\ \A f \in Settings : Configured(f) = Expected(f)

\* the same without the scrape timeout, the one setting whose variable is
\* read before the flags
C33_OtherSettings ==
    config # NotParsed /\ PlainEnv /\ (\A f \in Settings : WinnerValid(f))
        /\ osInput.env[EnvKey("scrape-timeout")] = "" =>
        /\ config.err = ""
        /\ \A f \in Settings : Configured(f) = Expected(f)

====
